---- MODULE Spec2Model ----
(***************************************************************************)
(* Fallback game monitor (src/fallback_game_monitor.py): extraction of     *)
(* game records from page fragments, deduplication, and reconciliation of  *)
(* the API game list with the site game list.                              *)
(*                                                                         *)
(* A text (Python str) is a sequence of one-character strings.  A game     *)
(* record (Python dict) is a record over the field set GameFields; a key   *)
(* the dict does not carry holds the value Absent.                         *)
(***************************************************************************)
EXTENDS Integers, Sequences, FiniteSets, TLC

\* ------------------------------------------------------------------ text

Digits == <<"0", "1", "2", "3", "4", "5", "6", "7", "8", "9">>

IsDigit(c) == \E i \in 1..10 : Digits[i] = c

DigitVal(c) == (CHOOSE i \in 1..10 : Digits[i] = c) - 1

RECURSIVE ToInt(_)
ToInt(s) ==
  IF s = <<>> THEN 0
  ELSE 10 * ToInt(SubSeq(s, 1, Len(s) - 1)) + DigitVal(s[Len(s)])

AllDigits(s) == \A i \in 1..Len(s) : IsDigit(s[i])

\* f"{n:02d}" for 0 <= n <= 99
Fmt2(n) == <<Digits[(n \div 10) + 1], Digits[(n % 10) + 1]>>

\* f"{n:04d}"-like rendering of a four-digit year (strftime %Y)
Fmt4(n) ==
  <<Digits[((n \div 1000) % 10) + 1], Digits[((n \div 100) % 10) + 1],
    Digits[((n \div 10) % 10) + 1], Digits[(n % 10) + 1]>>

\* str.zfill(2) on a string of one or two digits
Zfill2(s) == IF Len(s) < 2 THEN <<"0">> \o s ELSE s

\* Python "a in b" for strings
IsSubstr(a, b) ==
  \E i \in 0..(Len(b) - Len(a)) : SubSeq(b, i + 1, i + Len(a)) = a

IsSpace(c) == c = " "

\* the least element of a non-empty set of positions
Min(S) == CHOOSE k \in S : \A j \in S : k <= j

\* str.lstrip()
LStrip(s) ==
  LET From(inner) == IF inner = {} THEN <<>> ELSE SubSeq(s, Min(inner), Len(s))
  IN From({k \in 1..Len(s) : ~IsSpace(s[k])})

\* str.rstrip()
RStrip(s) ==
  LET Upto(inner) ==
        IF inner = {} THEN <<>>
        ELSE SubSeq(s, 1, CHOOSE k \in inner : \A j \in inner : j <= k)
  IN Upto({k \in 1..Len(s) : ~IsSpace(s[k])})

\* str.strip()
Strip(s) == LStrip(RStrip(s))

\* ------------------------------------------------------- python values

\* the value of dict.get(key) for a key the dict does not carry (None)
Absent == <<"<absent>">>

\* truthiness of a str-or-None value
Truthy(v) == v # Absent /\ v # <<>>

\* dict.get(key, default)
Get(v, default) == IF v = Absent THEN default ELSE v

\* Python "a or b"
Or(a, b) == IF Truthy(a) THEN a ELSE b

GameFields ==
  {"date", "time", "venue", "opponent", "team_name", "team_a", "team_b",
   "team1", "team2", "url", "game_id"}

NoGame == [f \in GameFields |-> Absent]

\* {**a, **b}: the keys of b overwrite those of a
DictMerge(a, b) == [f \in GameFields |-> IF b[f] # Absent THEN b[f] ELSE a[f]]

\* ------------------------------------------------------------- dates

IsLeap(y) == (y % 4 = 0 /\ y % 100 # 0) \/ y % 400 = 0

DaysInMonth(y, m) ==
  IF m = 2 THEN (IF IsLeap(y) THEN 29 ELSE 28)
  ELSE IF m \in {4, 6, 9, 11} THEN 30 ELSE 31

\* the result of a strptime that raised ValueError
NoDate == <<>>

\* positions of "." in s
DotPositions(s) == {i \in 1..Len(s) : s[i] = "."}

\* datetime.strptime(s, '%d.%m.%Y').date(): <<year, month, day>>, or NoDate
\* when strptime raises ValueError (wrong shape, day or month out of range,
\* a year that is not four digits, a day the month does not have).
Strptime(s) ==
  LET dots == DotPositions(s)
      Valid(d, m, y) ==
        IF m \in 1..12 /\ y >= 1 /\ d >= 1 /\ d <= DaysInMonth(y, m)
        THEN <<y, m, d>>
        ELSE NoDate
      Parsed(ds, ms, ys) ==
        IF /\ Len(ds) \in 1..2 /\ Len(ms) \in 1..2 /\ Len(ys) = 4
           /\ AllDigits(ds) /\ AllDigits(ms) /\ AllDigits(ys)
        THEN Valid(ToInt(ds), ToInt(ms), ToInt(ys))
        ELSE NoDate
      Split(p1, p2) ==
        Parsed(SubSeq(s, 1, p1 - 1), SubSeq(s, p1 + 1, p2 - 1),
               SubSeq(s, p2 + 1, Len(s)))
  IN
  IF Cardinality(dots) # 2 THEN NoDate
  ELSE Split(CHOOSE i \in dots : \A j \in dots : i <= j,
             CHOOSE i \in dots : \A j \in dots : j <= i)

\* a strict comparison in the place of DateLE: the variant C8 is shown to
\* tell apart
DateLT(a, b) == a[1] * 10000 + a[2] * 100 + a[3] < b[1] * 10000 + b[2] * 100 + b[3]

\* order on datetime.date values
DateKey(d) == d[1] * 10000 + d[2] * 100 + d[3]

DateLE(a, b) == DateKey(a) <= DateKey(b)

\* date.strftime('%d.%m.%Y')
Strftime(d) == Fmt2(d[3]) \o <<".">> \o Fmt2(d[2]) \o <<".">> \o Fmt4(d[1])

\* ------------------------------------------------------ normalization

UpperAlpha ==
  <<"A", "B", "C", "D", "E", "F", "G", "H", "I", "J", "K", "L", "M",
    "N", "O", "P", "Q", "R", "S", "T", "U", "V", "W", "X", "Y", "Z">>

LowerAlpha ==
  <<"a", "b", "c", "d", "e", "f", "g", "h", "i", "j", "k", "l", "m",
    "n", "o", "p", "q", "r", "s", "t", "u", "v", "w", "x", "y", "z">>

IsUpper(c) == \E i \in 1..26 : UpperAlpha[i] = c

IsLower(c) == \E i \in 1..26 : LowerAlpha[i] = c

ToLower(c) ==
  IF IsUpper(c) THEN LowerAlpha[CHOOSE i \in 1..26 : UpperAlpha[i] = c] ELSE c

ToUpper(c) ==
  IF IsLower(c) THEN UpperAlpha[CHOOSE i \in 1..26 : LowerAlpha[i] = c] ELSE c

\* str.upper()
Upper(s) == [k \in 1..Len(s) |-> ToUpper(s[k])]

\* str.startswith(prefix)
StartsWith(s, prefix) ==
  Len(s) >= Len(prefix) /\ SubSeq(s, 1, Len(prefix)) = prefix

IsAlnum(c) == IsUpper(c) \/ IsLower(c) \/ IsDigit(c)

\* case folding; punctuation dropped; every other character kept
FoldChars(s) ==
  LET IsKept(c) == IsAlnum(c) \/ IsSpace(c)
      Folded(kept) == [k \in 1..Len(kept) |-> ToLower(kept[k])]
  IN Folded(SelectSeq(s, IsKept))

\* runs of whitespace collapsed to one space
CollapseSpaces(s) ==
  LET IsRunStart(k) == IsSpace(s[k]) /\ (k = 1 \/ ~IsSpace(s[k - 1]))
      IsKept(k) == ~IsSpace(s[k]) \/ IsRunStart(k)
      Kept(indices) == [k \in 1..Len(indices) |-> s[indices[k]]]
  IN Kept(SelectSeq([k \in 1..Len(s) |-> k], IsKept))

\* GameSystemManager._normalize_name_for_search, reached through the
\* monitor's wrapper of the same name: case folded, punctuation removed,
\* whitespace standardised.  None normalizes to the empty text.
_normalize_name_for_search(text) ==
  IF text = Absent THEN <<>> ELSE Strip(CollapseSpaces(FoldChars(text)))

\* --------------------------------------------------------- same game

\* _compare_games with the dates compared as texts instead of as calendar
\* dates: the variant C4 is shown to tell apart
CompareDateTexts(api_game, site_game) ==
  LET api_opponent_norm ==
        _normalize_name_for_search(
          Or(Or(Get(api_game.team_b, <<>>), Get(api_game.opponent, <<>>)),
             Get(api_game.team2, <<>>)))
      site_opponent_norm ==
        _normalize_name_for_search(
          Or(Get(site_game.opponent, <<>>), Get(site_game.team2, <<>>)))
  IN
  /\ Get(api_game.date, <<>>) = Get(site_game.date, <<>>)
  /\ \/ /\ api_opponent_norm # <<>>
        /\ site_opponent_norm # <<>>
        /\ \/ IsSubstr(api_opponent_norm, site_opponent_norm)
           \/ IsSubstr(site_opponent_norm, api_opponent_norm)
     \/ (api_opponent_norm = <<>> /\ site_opponent_norm = <<>>)

\* FallbackGameMonitor._compare_games
_compare_games(api_game, site_game) ==
  LET api_date == Get(api_game.date, <<>>)
      api_opponent ==
        Or(Or(Get(api_game.team_b, <<>>), Get(api_game.opponent, <<>>)),
           Get(api_game.team2, <<>>))
      site_date == Get(site_game.date, <<>>)
      site_opponent == Or(Get(site_game.opponent, <<>>), Get(site_game.team2, <<>>))
      SameDay(api_date_obj, site_date_obj) ==
        IF api_date_obj # NoDate /\ site_date_obj # NoDate
        THEN api_date_obj = site_date_obj
        ELSE api_date = site_date
      dates_match ==
        IF Truthy(api_date) /\ Truthy(site_date)
        THEN SameDay(Strptime(api_date), Strptime(site_date))
        ELSE api_date = site_date
      opponents_match(api_opponent_norm, site_opponent_norm) ==
        \/ /\ api_opponent_norm # <<>>
           /\ site_opponent_norm # <<>>
           /\ \/ IsSubstr(api_opponent_norm, site_opponent_norm)
              \/ IsSubstr(site_opponent_norm, api_opponent_norm)
              \/ api_opponent_norm = site_opponent_norm
        \/ (api_opponent_norm = <<>> /\ site_opponent_norm = <<>>)
  IN
  IF ~dates_match THEN FALSE
  ELSE opponents_match(_normalize_name_for_search(api_opponent),
                       _normalize_name_for_search(site_opponent))

\* --------------------------------------------------------- deduplication

\* a key of the date alone: the variant C6 is shown to tell apart
DateOnlyKey(game) == <<Get(game.date, <<>>)>>

\* the key _remove_duplicate_games builds for one game
DedupKey(game) ==
  <<Get(game.date, <<>>),
    _normalize_name_for_search(Get(game.opponent, <<>>)),
    _normalize_name_for_search(Get(game.team_name, <<>>))>>

\* the loop of _remove_duplicate_games over games[i..], with the keys seen
RECURSIVE DedupFrom(_, _, _)
DedupFrom(games, i, seen) ==
  LET Step(game_key) ==
        IF game_key \notin seen
        THEN <<games[i]>> \o DedupFrom(games, i + 1, seen \cup {game_key})
        ELSE DedupFrom(games, i + 1, seen)
  IN IF i > Len(games) THEN <<>> ELSE Step(DedupKey(games[i]))

\* the loop started at the second record: the variant C7 is shown to tell apart
DedupAfterFirst(games) == DedupFrom(games, 2, {})

\* FallbackGameMonitor._remove_duplicate_games
_remove_duplicate_games(games) == DedupFrom(games, 1, {})

\* --------------------------------------------------- regular expressions

\* the result of a search that found nothing
NoMatch == [start |-> 0, end |-> 0]

IsDigitAt(s, i) == i >= 1 /\ i <= Len(s) /\ IsDigit(s[i])

IsCharAt(s, i, c) == i >= 1 /\ i <= Len(s) /\ s[i] = c

\* length of the \d{1,2} group at position i that is followed by "."
\* (greedy, then backtracking to one digit); 0 when the group cannot match
Digits12ThenDot(s, i) ==
  IF IsDigitAt(s, i) /\ IsDigitAt(s, i + 1) /\ IsCharAt(s, i + 2, ".") THEN 2
  ELSE IF IsDigitAt(s, i) /\ IsCharAt(s, i + 1, ".") THEN 1
  ELSE 0

\* length of the greedy \d{2,4} group at position i; 0 when under two digits
Digits24(s, i) ==
  IF ~(IsDigitAt(s, i) /\ IsDigitAt(s, i + 1)) THEN 0
  ELSE IF ~IsDigitAt(s, i + 2) THEN 2
  ELSE IF ~IsDigitAt(s, i + 3) THEN 3
  ELSE 4

\* re.match of (\d{1,2})\.(\d{1,2})\.(\d{2,4}) at position i
DateMatchAt(s, i) ==
  LET Groups(dl, ml, yl) ==
        IF yl = 0 THEN NoMatch
        ELSE [start |-> i, end |-> i + dl + ml + yl + 1,
              day |-> SubSeq(s, i, i + dl - 1),
              month |-> SubSeq(s, i + dl + 1, i + dl + ml),
              year |-> SubSeq(s, i + dl + ml + 2, i + dl + ml + yl + 1)]
      AfterMonth(dl, ml) ==
        Groups(dl, ml, IF ml = 0 THEN 0 ELSE Digits24(s, i + dl + ml + 2))
      AfterDay(dl) ==
        AfterMonth(dl, IF dl = 0 THEN 0 ELSE Digits12ThenDot(s, i + dl + 1))
  IN AfterDay(Digits12ThenDot(s, i))

\* re.search of the date pattern in s from position i on: the leftmost match
DateSearchFrom(s, i) ==
  LET Leftmost(starts) ==
        IF starts = {} THEN NoMatch ELSE DateMatchAt(s, Min(starts))
  IN Leftmost({k \in i..Len(s) : DateMatchAt(s, k) # NoMatch})

\* the last date of the text in the place of the first: the variant C9 is
\* shown to tell apart
LastDateSearch(s) ==
  LET Rightmost(starts) ==
        IF starts = {} THEN NoMatch
        ELSE DateMatchAt(s, CHOOSE k \in starts : \A j \in starts : j <= k)
  IN Rightmost({k \in 1..Len(s) : DateMatchAt(s, k) # NoMatch})

\* date_matches[0] of re.finditer(date_pattern, text)
DateSearch(s) == DateSearchFrom(s, 1)

IsTimeSep(s, i) == IsCharAt(s, i, ":") \/ IsCharAt(s, i, ".")

\* re.match of (\d{1,2})[:.](\d{2}) at position i
TimeMatchAt(s, i) ==
  IF /\ IsDigitAt(s, i) /\ IsDigitAt(s, i + 1) /\ IsTimeSep(s, i + 2)
     /\ IsDigitAt(s, i + 3) /\ IsDigitAt(s, i + 4)
  THEN [start |-> i, end |-> i + 4,
        hours |-> ToInt(SubSeq(s, i, i + 1)),
        minutes |-> ToInt(SubSeq(s, i + 3, i + 4))]
  ELSE IF /\ IsDigitAt(s, i) /\ IsTimeSep(s, i + 1)
          /\ IsDigitAt(s, i + 2) /\ IsDigitAt(s, i + 3)
  THEN [start |-> i, end |-> i + 3,
        hours |-> ToInt(SubSeq(s, i, i)),
        minutes |-> ToInt(SubSeq(s, i + 2, i + 3))]
  ELSE NoMatch

\* the default time of a record
DefaultTime == <<"2", "0", ":", "0", "0">>

\* any time of the day accepted: the variant C10 is shown to tell apart
AnyClockTime(m) == m.hours >= 0 /\ m.hours <= 23 /\ m.minutes >= 0 /\ m.minutes <= 59

\* 8 <= hours <= 23 and 0 <= minutes <= 59
IsGameTime(m) == m.hours >= 8 /\ m.hours <= 23 /\ m.minutes >= 0 /\ m.minutes <= 59

\* the loop over re.finditer(time_pattern, s): non-overlapping matches left
\* to right from position i; the first that is a game time, formatted
\* HH:MM, else "20:00"
RECURSIVE FirstGameTimeFrom(_, _)
FirstGameTimeFrom(s, i) ==
  LET Found(m) ==
        IF IsGameTime(m) THEN Fmt2(m.hours) \o <<":">> \o Fmt2(m.minutes)
        ELSE FirstGameTimeFrom(s, m.end + 1)
      Leftmost(starts) ==
        IF starts = {} THEN DefaultTime ELSE Found(TimeMatchAt(s, Min(starts)))
  IN Leftmost({k \in i..Len(s) : TimeMatchAt(s, k) # NoMatch})

\* text[:n]
Prefix(s, n) == SubSeq(s, 1, IF Len(s) < n THEN Len(s) ELSE n)

\* text[pos:] for a 1-based last-consumed index pos
After(s, pos) == SubSeq(s, pos + 1, Len(s))

\* ------------------------------------------------------- team position

\* GameSystemManager._build_name_variants: the spellings a name is searched
\* under, its normalized form among them
_build_name_variants(name) == {_normalize_name_for_search(name)}

\* GameSystemManager._find_matching_variant, reached through the monitor's
\* wrapper: a variant contained in the normalized text, None when there is
\* none
_find_matching_variant(text, variants) ==
  LET Pick(matching) ==
        IF matching = {} THEN Absent ELSE CHOOSE v \in matching : TRUE
      Contained(normalized_text) ==
        Pick({v \in variants : IsSubstr(v, normalized_text)})
  IN Contained(_normalize_name_for_search(text))

\* game_separators, in the order tried: [-, en dash, em dash] between
\* optional whitespace, then the words 'protiv' (against), 'vs' and 'i'
\* (and) between whitespace
game_separators == <<"dash", "against", "vs", "and">>

\* the characters of [-, en dash, em dash]
IsDash(c) == c \in {"-", "ndash", "mdash"}

SeparatorWord(sep) ==
  CASE sep = "against" -> <<"p", "r", "o", "t", "i", "v">>
    [] sep = "vs" -> <<"v", "s">>
    [] sep = "and" -> <<"i">>
    [] OTHER -> <<>>

\* the first index from i on that holds no whitespace, Len(s) + 1 when none
SpaceRunEnd(s, i) ==
  Min({k \in i..(Len(s) + 1) : k = Len(s) + 1 \/ ~IsSpace(s[k])})

\* s[i .. i + Len(w) - 1] = w with re.IGNORECASE
IsWordAt(s, i, w) ==
  /\ i + Len(w) - 1 <= Len(s)
  /\ \A k \in 1..Len(w) : ToLower(s[i + k - 1]) = ToLower(w[k])

\* re.match of a separator pattern at index i: the last index consumed, 0
\* when the pattern does not match there
SeparatorMatchAt(s, i, sep) ==
  LET DashAfter(j) ==
        IF j <= Len(s) /\ IsDash(s[j]) THEN SpaceRunEnd(s, j + 1) - 1 ELSE 0
      WordEnd(j, w, e) == IF e > j + Len(w) THEN e - 1 ELSE 0
      WordAfter(j, w) ==
        IF j > i /\ IsWordAt(s, j, w)
        THEN WordEnd(j, w, SpaceRunEnd(s, j + Len(w)))
        ELSE 0
      FromWord(j) ==
        IF sep = "dash" THEN DashAfter(j) ELSE WordAfter(j, SeparatorWord(sep))
  IN IF i > Len(s) THEN 0 ELSE FromWord(SpaceRunEnd(s, i))

\* re.search of a separator pattern from index i on: the leftmost match
SeparatorSearchFrom(s, i, sep) ==
  LET At(k) == [start |-> k, end |-> SeparatorMatchAt(s, k, sep)]
      Leftmost(starts) == IF starts = {} THEN NoMatch ELSE At(Min(starts))
  IN Leftmost({k \in i..Len(s) : SeparatorMatchAt(s, k, sep) # 0})

\* the first two elements of re.split(sep_pattern, text), the whole text
\* alone when the pattern matches nowhere
SplitParts(s, sep) ==
  LET Second(m1, m2) ==
        SubSeq(s, m1.end + 1, IF m2 = NoMatch THEN Len(s) ELSE m2.start - 1)
      Two(m1) ==
        <<SubSeq(s, 1, m1.start - 1),
          Second(m1, SeparatorSearchFrom(s, m1.end + 1, sep))>>
      Parts(m1) == IF m1 = NoMatch THEN <<s>> ELSE Two(m1)
  IN Parts(SeparatorSearchFrom(s, 1, sep))

\* the second segment tried before the first: a slip in the order of the
\* two checks
RECURSIVE SecondSegmentFirst(_, _, _)
SecondSegmentFirst(text, team_variants, k) ==
  LET Matches(part) ==
        Truthy(_find_matching_variant(_normalize_name_for_search(part),
                                      team_variants))
      Decide(parts) ==
        IF Len(parts) >= 2 /\ Matches(parts[2]) THEN 1
        ELSE IF Len(parts) >= 2 /\ Matches(parts[1]) THEN 2
        ELSE SecondSegmentFirst(text, team_variants, k + 1)
  IN IF k > Len(game_separators) THEN 0
     ELSE Decide(SplitParts(text, game_separators[k]))

\* the loop over game_separators from the k-th on: team_position, 0 for None
RECURSIVE TeamPositionFrom(_, _, _)
TeamPositionFrom(text, team_variants, k) ==
  LET Matches(part) ==
        Truthy(_find_matching_variant(_normalize_name_for_search(part),
                                      team_variants))
      Decide(parts) ==
        IF Len(parts) >= 2 /\ Matches(parts[1]) THEN 1
        ELSE IF Len(parts) >= 2 /\ Matches(parts[2]) THEN 2
        ELSE TeamPositionFrom(text, team_variants, k + 1)
  IN IF k > Len(game_separators) THEN 0
     ELSE Decide(SplitParts(text, game_separators[k]))

\* ------------------------------------------------------ venue, opponent

\* Texts of the model are ASCII, with the en dash and the em dash as the
\* characters "ndash" and "mdash".  A pattern of the parser every match of
\* which holds a Cyrillic literal matches no such text; the steps below are
\* the steps of the parser that can act on one.

\* re.sub over s from index i on: lens[k] > 0 is the length of the match of
\* the pattern at index k; every leftmost non-overlapping match becomes r
RECURSIVE Substitute(_, _, _, _)
Substitute(s, lens, r, i) ==
  LET At(k) == SubSeq(s, i, k - 1) \o r \o Substitute(s, lens, r, k + lens[k])
      Leftmost(starts) ==
        IF starts = {} THEN SubSeq(s, i, Len(s)) ELSE At(Min(starts))
  IN Leftmost({k \in i..Len(s) : lens[k] > 0})

\* str.replace(w, r)
ReplaceText(s, w, r) ==
  IF w = <<>> THEN s
  ELSE Substitute(s, [k \in 1..Len(s) |->
                        IF k + Len(w) - 1 <= Len(s) /\ SubSeq(s, k, k + Len(w) - 1) = w
                        THEN Len(w) ELSE 0],
                  r, 1)

\* re.sub(re.escape(w), r, s, flags=re.IGNORECASE)
ReplaceWord(s, w, r) ==
  IF w = <<>> THEN s
  ELSE Substitute(s, [k \in 1..Len(s) |-> IF IsWordAt(s, k, w) THEN Len(w) ELSE 0],
                  r, 1)

\* re.sub over the characters of a class
ReplaceChars(s, IsInClass(_), r) ==
  Substitute(s, [k \in 1..Len(s) |-> IF IsInClass(s[k]) THEN 1 ELSE 0], r, 1)

\* re.sub(r'\s+', ' ', s).strip()
SingleSpaced(s) ==
  Strip(Substitute(s, [k \in 1..Len(s) |->
                         IF IsSpace(s[k]) THEN SpaceRunEnd(s, k) - k ELSE 0],
                   <<" ">>, 1))

\* the texts matched by re.finditer(date_pattern, s) from index i on
RECURSIVE DateTextsFrom(_, _)
DateTextsFrom(s, i) ==
  LET Found(m) ==
        IF m = NoMatch THEN <<>>
        ELSE <<SubSeq(s, m.start, m.end)>> \o DateTextsFrom(s, m.end + 1)
  IN Found(DateSearchFrom(s, i))

\* for date_match_obj in date_matches: clean_text.replace(group(0), ' ')
RECURSIVE ReplaceDates(_, _, _)
ReplaceDates(s, date_texts, k) ==
  IF k > Len(date_texts) THEN s
  ELSE ReplaceDates(ReplaceText(s, date_texts[k], <<" ">>), date_texts, k + 1)

\* for variant in variants: re.sub(re.escape(variant), '', clean_text)
RECURSIVE RemoveVariants(_, _)
RemoveVariants(s, variants) ==
  LET Without(v) == RemoveVariants(ReplaceWord(s, v, <<>>), variants \ {v})
  IN IF variants = {} THEN s ELSE Without(CHOOSE v \in variants : TRUE)

\* re.sub(time_pattern, '', s)
RemoveTimes(s) ==
  LET Length(m) == IF m = NoMatch THEN 0 ELSE m.end - m.start + 1
  IN Substitute(s, [k \in 1..Len(s) |-> Length(TimeMatchAt(s, k))], <<>>, 1)

MarvelHall ==
  <<"M", "a", "r", "v", "e", "l", "H", "a", "l", "l">>

\* the known places spelled in ASCII, in the order of the list
known_places ==
  <<MarvelHall, <<"m", "a", "r", "v", "e", "l">>, <<"h", "a", "l", "l">>>>

RECURSIVE RemoveKnownPlaces(_, _)
RemoveKnownPlaces(s, k) ==
  IF k > Len(known_places) THEN s
  ELSE RemoveKnownPlaces(ReplaceWord(s, known_places[k], <<>>), k + 1)

\* \w of an ASCII text
IsWordChar(c) == IsAlnum(c) \/ c = "_"

\* re.sub(r'\b(...|vs|...)\b', '', s, flags=re.IGNORECASE): the one service
\* word spelled in ASCII
RemoveServiceWords(s) ==
  LET vs == <<"v", "s">>
      IsBoundary(k) ==
        (k = 1 \/ ~IsWordChar(s[k - 1]))
        /\ (k + Len(vs) > Len(s) \/ ~IsWordChar(s[k + Len(vs)]))
  IN Substitute(s, [k \in 1..Len(s) |->
                      IF IsWordAt(s, k, vs) /\ IsBoundary(k) THEN Len(vs) ELSE 0],
                <<>>, 1)

IsListPunctuation(c) == c \in {".", ":", ";", ","}

\* the venue the venue patterns find in the text: the occurrence of
\* 'MarvelHall', '' when there is none
RowVenue(text) ==
  LET Found(starts) ==
        IF starts = {} THEN <<>>
        ELSE SubSeq(text, Min(starts), Min(starts) + Len(MarvelHall) - 1)
  IN Found({k \in 1..Len(text) : IsWordAt(text, k, MarvelHall)})

\* clean_text: the text without the team, the dates, the times, the venue,
\* the known places, the separators and the service words
CleanText(text, team_name, time_str, venue) ==
  LET Spaced(c) == SingleSpaced(SingleSpaced(c))
      Punctuation(c) == Spaced(ReplaceChars(c, IsListPunctuation, <<" ">>))
      Service(c) == Punctuation(RemoveServiceWords(c))
      Dashes(c) == Service(ReplaceChars(c, IsDash, <<" ">>))
      Places(c) == Dashes(RemoveKnownPlaces(c, 1))
      Venue(c) == Places(ReplaceWord(c, venue, <<>>))
      Times(c) == Venue(RemoveTimes(c))
      Time(c) == Times(IF time_str # DefaultTime
                       THEN ReplaceText(c, time_str, <<>>) ELSE c)
      Dates(c) == Time(ReplaceDates(c, DateTextsFrom(text, 1), 1))
  IN Dates(RemoveVariants(text, _build_name_variants(team_name)))

\* str.split() of a single-spaced text
RECURSIVE Words(_)
Words(s) ==
  LET Cut(spaces) ==
        IF spaces = {} THEN <<s>>
        ELSE <<SubSeq(s, 1, Min(spaces) - 1)>>
             \o Words(SubSeq(s, Min(spaces) + 1, Len(s)))
  IN IF s = <<>> THEN <<>> ELSE Cut({k \in 1..Len(s) : IsSpace(s[k])})

IsBracketOrPunctuation(c) ==
  c \in {".", ",", ";", ":", "(", ")", "[", "]", "{", "}"}

\* word.strip('.,;:()[]{}')
StripPunctuation(w) ==
  LET Kept(inner) ==
        IF inner = {} THEN <<>>
        ELSE SubSeq(w, Min(inner), CHOOSE k \in inner : \A j \in inner : j <= k)
  IN Kept({k \in 1..Len(w) : ~IsBracketOrPunctuation(w[k])})

\* significant_words: the words of two characters and more that are no
\* numbers
RECURSIVE SignificantWords(_, _)
SignificantWords(words, k) ==
  LET Kept(word_clean) ==
        IF Len(word_clean) >= 2 /\ ~AllDigits(word_clean)
        THEN <<word_clean>> ELSE <<>>
  IN IF k > Len(words) THEN <<>>
     ELSE Kept(StripPunctuation(words[k])) \o SignificantWords(words, k + 1)

\* ' '.join(opponent_parts): at most four of the significant words
RECURSIVE JoinWords(_, _, _)
JoinWords(words, k, n) ==
  IF k > n THEN <<>>
  ELSE (IF k = 1 THEN <<>> ELSE <<" ">>) \o words[k] \o JoinWords(words, k + 1, n)

\* the opponent of a schedule row, '' for None
RowOpponent(text, team_name, time_str, venue) ==
  LET Checked(opponent) ==
        IF [k \in 1..Len(opponent) |-> ToLower(opponent[k])] = <<"v", "s">>
        THEN <<>> ELSE opponent
      Joined(significant_words) ==
        Checked(Strip(JoinWords(significant_words, 1,
                                IF Len(significant_words) < 4
                                THEN Len(significant_words) ELSE 4)))
  IN Joined(SignificantWords(Words(CleanText(text, team_name, time_str, venue)), 1))

\* ------------------------------------------------- game record parser

\* characters searched for a time after the date in a schedule row
RowTimeWindow == 100

\* 'Не указано', the venue of a record whose text names none
NotSpecified == <<"N", "e", " ", "u", "k", "a", "z", "a", "n", "o">>

\* the result of an extraction that returned None
None == [date |-> Absent]

\* FallbackGameMonitor._extract_game_info_from_schedule_row
_extract_game_info_from_schedule_row(text, team_name, now) ==
  LET Built(date_str, time_str, team_position, venue, opponent) ==
        IF opponent = <<>> \/ Len(opponent) < 2 THEN None
        ELSE IF Len(opponent) > 50 THEN None
        ELSE [NoGame EXCEPT
                !.date = date_str,
                !.time = time_str,
                !.opponent = opponent,
                !.venue = Or(venue, NotSpecified),
                !.url = <<>>,
                !.team1 = IF team_position = 1 THEN team_name
                          ELSE IF team_position = 2 THEN opponent ELSE Absent,
                !.team2 = IF team_position = 1 THEN opponent
                          ELSE IF team_position = 2 THEN team_name ELSE Absent]
      Record(date_str, time_str, team_position, venue) ==
        Built(date_str, time_str, team_position, venue,
              RowOpponent(text, team_name, time_str, venue))
      Dated(date_match, date_str, game_date) ==
        IF game_date = NoDate THEN None
        ELSE IF DateLE(game_date, now) THEN None
        ELSE Record(date_str,
                    FirstGameTimeFrom(
                      Prefix(After(text, date_match.end), RowTimeWindow), 1),
                    TeamPositionFrom(text, _build_name_variants(team_name), 1),
                    RowVenue(text))
      Normalized(date_match, date_str) ==
        Dated(date_match, date_str, Strptime(date_str))
      FirstDate(date_match) ==
        IF date_match = NoMatch THEN None
        ELSE Normalized(date_match,
                        Zfill2(date_match.day) \o <<".">> \o Zfill2(date_match.month)
                        \o <<".">>
                        \o (IF Len(date_match.year) = 2
                            THEN <<"2", "0">> \o date_match.year
                            ELSE date_match.year))
  IN FirstDate(DateSearch(text))

\* ----------------------------------------------------- date arithmetic

DaysBeforeYear(y) ==
  (y - 1) * 365 + ((y - 1) \div 4) - ((y - 1) \div 100) + ((y - 1) \div 400)

RECURSIVE DaysBeforeMonth(_, _)
DaysBeforeMonth(y, m) ==
  IF m = 1 THEN 0 ELSE DaysBeforeMonth(y, m - 1) + DaysInMonth(y, m - 1)

\* date.toordinal()
ToOrdinal(d) == DaysBeforeYear(d[1]) + DaysBeforeMonth(d[1], d[2]) + d[3]

\* ------------------------------------------------ matrix (cross) table

\* days a yearless date may lie in the past and still be read as this year
YearRollDays == 30

\* 'Соперник', the opponent of a record whose source names none
DefaultOpponent == <<"S", "o", "p", "e", "r", "n", "i", "k">>

\* re.match of (\d{1,2})\.(\d{1,2})\.(\d{4}) at position i
FullDateMatchAt(s, i) ==
  LET Full(m) == IF m # NoMatch /\ Len(m.year) = 4 THEN m ELSE NoMatch
  IN Full(DateMatchAt(s, i))

FullDateSearchFrom(s, i) ==
  LET Leftmost(starts) ==
        IF starts = {} THEN NoMatch ELSE FullDateMatchAt(s, Min(starts))
  IN Leftmost({k \in i..Len(s) : FullDateMatchAt(s, k) # NoMatch})

\* re.match of (\d{1,2})\.(\d{1,2}) at position i
ShortDateMatchAt(s, i) ==
  LET Groups(dl, ml) ==
        IF ml = 0 THEN NoMatch
        ELSE [start |-> i, end |-> i + dl + ml,
              day |-> SubSeq(s, i, i + dl - 1),
              month |-> SubSeq(s, i + dl + 1, i + dl + ml),
              year |-> <<>>]
      AfterDay(dl) ==
        Groups(dl, IF dl = 0 \/ ~IsDigitAt(s, i + dl + 1) THEN 0
                   ELSE IF IsDigitAt(s, i + dl + 2) THEN 2 ELSE 1)
  IN AfterDay(Digits12ThenDot(s, i))

ShortDateSearchFrom(s, i) ==
  LET Leftmost(starts) ==
        IF starts = {} THEN NoMatch ELSE ShortDateMatchAt(s, Min(starts))
  IN Leftmost({k \in i..Len(s) : ShortDateMatchAt(s, k) # NoMatch})

\* the loop over date_patterns on one cell: DD.MM.YYYY first, then DD.MM
CellDateMatch(cell_text) ==
  LET Tried(full) == IF full # NoMatch THEN full ELSE ShortDateSearchFrom(cell_text, 1)
  IN Tried(FullDateSearchFrom(cell_text, 1))

DayMonthYear(day, month, y) == day \o <<".">> \o month \o <<".">> \o Fmt4(y)

\* the date of a cell read in the current year whatever the day of run
CellGameDateThisYear(m, now) ==
  IF m.year # <<>> THEN Strptime(m.day \o <<".">> \o m.month \o <<".">> \o m.year)
  ELSE Strptime(DayMonthYear(m.day, m.month, now[1]))

\* the game date a cell's date match resolves to, or NoDate when strptime
\* raises: a date without a year is read in the current year, and in the
\* next year when that lies more than YearRollDays days back
CellGameDate(m, now) ==
  LET Rolled(this_year) ==
        IF this_year = NoDate THEN NoDate
        ELSE IF ToOrdinal(this_year) < ToOrdinal(now) - YearRollDays
             THEN Strptime(DayMonthYear(m.day, m.month, now[1] + 1))
             ELSE this_year
  IN
  IF m.year # <<>> THEN Strptime(m.day \o <<".">> \o m.month \o <<".">> \o m.year)
  ELSE Rolled(Strptime(DayMonthYear(m.day, m.month, now[1])))

\* re.match of (\d{1,2}):(\d{2}) at position i: the matched text
ColonTimeAt(s, i) ==
  IF /\ IsDigitAt(s, i) /\ IsDigitAt(s, i + 1) /\ IsCharAt(s, i + 2, ":")
     /\ IsDigitAt(s, i + 3) /\ IsDigitAt(s, i + 4)
  THEN SubSeq(s, i, i + 4)
  ELSE IF /\ IsDigitAt(s, i) /\ IsCharAt(s, i + 1, ":")
          /\ IsDigitAt(s, i + 2) /\ IsDigitAt(s, i + 3)
  THEN SubSeq(s, i, i + 3)
  ELSE <<>>

\* the time of a matrix cell: group(0) of the first (\d{1,2}):(\d{2}), else 20:00
CellTimeFrom(s, i) ==
  LET Leftmost(starts) ==
        IF starts = {} THEN DefaultTime ELSE ColonTimeAt(s, Min(starts))
  IN Leftmost({k \in i..Len(s) : ColonTimeAt(s, k) # <<>>})

\* the opponent a column header gives: the header text unless it is missing,
\* blank or the team itself
HeaderOpponent(header, team_name) ==
  LET Named(stripped) ==
        IF stripped = <<>> \/ header = team_name THEN DefaultOpponent
        ELSE IF _normalize_name_for_search(header) = _normalize_name_for_search(team_name)
             THEN DefaultOpponent
        ELSE stripped
  IN IF header = Absent THEN DefaultOpponent ELSE Named(Strip(header))

\* one cell of the team's row in _parse_schedule_table: the record it yields,
\* or None.  A cell is [text, header]; header is Absent past the header row.
MatrixCellGame(cell, team_name, base_url, now) ==
  LET Record(cell_text, game_date) ==
        IF game_date = NoDate THEN None
        ELSE IF DateLE(game_date, now) THEN None
        ELSE [NoGame EXCEPT
                !.date = Strftime(game_date),
                !.time = CellTimeFrom(cell_text, 1),
                !.opponent = HeaderOpponent(IF cell.header = Absent THEN Absent
                                            ELSE Strip(cell.header), team_name),
                !.venue = <<>>,
                !.team_name = team_name,
                !.url = base_url]
      Dated(cell_text, m) ==
        IF m = NoMatch THEN None ELSE Record(cell_text, CellGameDate(m, now))
      Stripped(cell_text) ==
        IF cell_text = <<>> THEN None ELSE Dated(cell_text, CellDateMatch(cell_text))
  IN Stripped(Strip(cell.text))

Cell(text, header) == [text |-> text, header |-> header]

\* the row of the team in a cross table: the first row below the header row
\* with two or more cells whose second cell names the team; 0 when none
TeamRowIndex(rows, team_name) ==
  LET Found(named) == IF named = {} THEN 0 ELSE Min(named)
  IN Found({k \in 2..Len(rows) :
              /\ Len(rows[k]) >= 2
              /\ Truthy(_find_matching_variant(
                          _normalize_name_for_search(Strip(rows[k][2])),
                          _build_name_variants(team_name)))})

\* the headers counted from the third column on, as the cells are
MatrixCellsShifted(team_row, headers) ==
  [k \in 1..(Len(team_row) - 2) |->
     Cell(team_row[k + 2], IF k <= Len(headers) THEN headers[k] ELSE Absent)]

\* the cells of the team's row from the third on (cell_idx in range(2,
\* len(cells))), each with the header cell at its own index, Absent when
\* the header row is shorter
MatrixCells(team_row, headers) ==
  [k \in 1..(Len(team_row) - 2) |->
     Cell(team_row[k + 2], IF k + 2 <= Len(headers) THEN headers[k + 2] ELSE Absent)]

RECURSIVE MatrixRowGames(_, _, _, _, _)
MatrixRowGames(cells, i, team_name, base_url, now) ==
  LET Kept(g) == IF g = None THEN <<>> ELSE <<g>> IN
  IF i > Len(cells) THEN <<>>
  ELSE Kept(MatrixCellGame(cells[i], team_name, base_url, now))
       \o MatrixRowGames(cells, i + 1, team_name, base_url, now)

\* ------------------------------------------------------------ inputs

\* the team searched for
TeamName ==
  <<"V", "i", "n", "t", "a", "g", "e">>

Zenit ==
  <<"Z", "e", "n", "i", "t">>

ZenitCaps ==
  <<"Z", "E", "N", "I", "T">>

Zenit2 ==
  <<"Z", "e", "n", "i", "t", "-", "2">>

Lion ==
  <<"L", "i", "o", "n">>

Arena ==
  <<"A", "r", "e", "n", "a">>

Hall ==
  <<"H", "a", "l", "l">>

SiteUrl ==
  <<"s", "i", "t", "e", "/">>

GameHref ==
  <<"s", "i", "t", "e", "/", "g", "a", "m", "e", "/", "7">>

GameId ==
  <<"7">>

T1800 ==
  <<"1", "8", ":", "0", "0">>

D10Oct2025 ==
  <<"1", "0", ".", "1", "0", ".", "2", "0", "2", "5">>

D5Jan2026Padded ==
  <<"0", "5", ".", "0", "1", ".", "2", "0", "2", "6">>

D5Jan2026 ==
  <<"5", ".", "1", ".", "2", "0", "2", "6">>

D1Jun2024 ==
  <<"1", ".", "6", ".", "2", "0", "2", "4">>

TxtZenit ==
  <<"1", "0", ".", "1", "0", ".", "2", "0", "2", "5", " ", "V", "i", "n",
    "t", "a", "g", "e", " ", "-", " ", "Z", "e", "n", "i", "t">>

TxtZenitCaps ==
  <<"1", "0", ".", "1", "0", ".", "2", "5", " ", "7", ":", "1", "5", " ",
    "1", "9", ":", "3", "0", " ", "Z", "E", "N", "I", "T", " ", "-", " ",
    "V", "i", "n", "t", "a", "g", "e", " ", "M", "a", "r", "v", "e", "l",
    "H", "a", "l", "l">>

TxtEarly ==
  <<"2", "5", ".", "1", "2", ".", "2", "0", "2", "5", " ", "0", "7", ":",
    "4", "5", " ", "V", "i", "n", "t", "a", "g", "e", " ", "-", " ", "L",
    "i", "o", "n">>

TxtPastThenFuture ==
  <<"0", "1", ".", "0", "6", ".", "2", "0", "2", "4", " ", "2", "5", ".",
    "1", "2", ".", "2", "0", "2", "5", " ", "V", "i", "n", "t", "a", "g",
    "e", " ", "-", " ", "L", "i", "o", "n">>

TxtInvalidDate ==
  <<"3", "1", ".", "0", "2", ".", "2", "0", "2", "6", " ", "V", "i", "n",
    "t", "a", "g", "e", " ", "-", " ", "L", "i", "o", "n", " ", "0", "1",
    ".", "0", "3", ".", "2", "0", "2", "6">>

TxtNoDate ==
  <<"V", "i", "n", "t", "a", "g", "e", " ", "-", " ", "L", "i", "o", "n",
    " ", "t", "o", "m", "o", "r", "r", "o", "w">>

TxtFarHead ==
  <<"2", "5", ".", "1", "2", ".", "2", "0", "2", "5", " ", "V", "i", "n",
    "t", "a", "g", "e", " ", "-", " ", "L", "i", "o", "n">>

TxtFarTail ==
  <<"1", "9", ":", "3", "0">>

CellMay15 ==
  <<"1", "5", ".", "0", "5">>

LinkZenit2 ==
  <<"1", "0", ".", "1", "0", ".", "2", "0", "2", "5", " ", "Z", "e", "n",
    "i", "t", "-", "2">>

LinkNoDate ==
  <<"Z", "e", "n", "i", "t">>

LinkPast ==
  <<"0", "1", ".", "0", "6", ".", "2", "0", "2", "4", " ", "L", "i", "o",
    "n">>

LinkedPage ==
  <<"G", "a", "m", "e", " ", "2", "5", ".", "1", "2", ".", "2", "0", "2",
    "5", " ", "1", "8", ":", "0", "0", " ", "V", "i", "n", "t", "a", "g",
    "e", " ", "-", " ", "L", "i", "o", "n">>


\* longest page (in items), longest list of site games, longest API list
MaxItems == 2

MaxSite == 2

MaxApi == 2

\* padding between the date and a time that lies past the row's window
FarGap == 101

\* the dates the run may take place on
Todays == {<<2024, 6, 1>>, <<2025, 10, 10>>}

\* a candidate text of a block or of a table, and whether the table scan cut
\* it from a whole row
Frag(text, by_row) == [text |-> text, by_row |-> by_row]

\* a link text or the text of a link's parent, with the opponent the link
\* parser's clean-up leaves of it
LinkText(text, opponent) == [text |-> text, opponent |-> opponent]

TxtFar == TxtFarHead \o [i \in 1..FarGap |-> " "] \o TxtFarTail

TxtHomeAway ==
  <<"V", "i", "n", "t", "a", "g", "e", " ", "-", " ", "Z", "e", "n", "i", "t",
    " ", "1", "5", ".", "0", "7", ".", "2", "0", "2", "5", " ", "1", "9", ":",
    "3", "0">>

TxtVersus ==
  <<"Z", "e", "n", "i", "t", " ", "v", "s", " ", "V", "i", "n", "t", "a", "g",
    "e", " ", "1", "5", ".", "0", "7", ".", "2", "0", "2", "5">>

TxtThird ==
  <<"L", "i", "o", "n", " ", "-", " ", "Z", "e", "n", "i", "t", " ", "-", " ",
    "V", "i", "n", "t", "a", "g", "e", " ", "1", "5", ".", "0", "7", ".", "2",
    "0", "2", "5">>

TxtUnseparated ==
  <<"1", "5", ".", "0", "7", ".", "2", "0", "2", "5", " ", "V", "i", "n", "t",
    "a", "g", "e", " ", "Z", "e", "n", "i", "t", " ", "1", "8", ":", "0",
    "0">>

\* the teams searched for
Teams == {TeamName, Zenit}

\* the texts handed to the row parser
RowTexts ==
  {TxtZenit, TxtZenitCaps, TxtEarly, TxtPastThenFuture, TxtInvalidDate,
   TxtNoDate, TxtFar, TxtHomeAway, TxtVersus, TxtThird, TxtUnseparated}

\* the calls of _extract_game_info_from_schedule_row on the texts, teams and
\* days of the model, each with what it returns
RowCalls ==
  {[text |-> call[1], team_name |-> call[2], now |-> call[3],
    result |-> _extract_game_info_from_schedule_row(call[1], call[2], call[3])] :
     call \in RowTexts \X Teams \X Todays}

\* the result of one of those calls
RowRecord(text, team_name, now) ==
  (CHOOSE c \in RowCalls :
     c.text = text /\ c.team_name = team_name /\ c.now = now).result

\* ------------------------------------------------ page strategies

\* shortest cell or row text the standard table scan looks at
MinCellLen == 10

\* shortest block text the date-anchored scan looks at
MinBlockLen == 15

\* characters searched for a time after the date in link and page text
LinkTimeWindow == 200

\* a record parsed from a schedule row, as its callers store it
RowGame(frag, team_name, base_url, now) ==
  LET Stored(g) == IF g = None THEN None ELSE [g EXCEPT !.team_name = team_name]
  IN Stored(RowRecord(frag.text, team_name, now))

\* existing_game.date == game_info.date and existing_game.time == game_info.time
SameDateTime(games, g) ==
  \E k \in 1..Len(games) : games[k].date = g.date /\ games[k].time = g.time

\* The standard scan of _parse_schedule_table over the candidate texts of a
\* table, in document order: texts that hold a date and the team as a
\* participant.  A candidate cut from a whole row (by_row) is dropped when a
\* game of the same date and time is already in the list.
RECURSIVE StandardTableGames(_, _, _, _, _, _)
StandardTableGames(frags, i, games, team_name, base_url, now) ==
  LET Scanned(g) ==
        StandardTableGames(
          frags, i + 1,
          IF g # None /\ ~(frags[i].by_row /\ SameDateTime(games, g))
          THEN Append(games, g) ELSE games,
          team_name, base_url, now)
  IN
  IF i > Len(frags) THEN games
  ELSE Scanned(IF Len(frags[i].text) < MinCellLen THEN None
               ELSE RowGame(frags[i], team_name, base_url, now))

\* FallbackGameMonitor._parse_schedule_table.  A table is [rows, frags]: the
\* cell texts of its rows, the header row first, and the candidate texts the
\* standard scan cuts from the rows other than the team's row.
_parse_schedule_table(table, team_name, base_url, now) ==
  LET Result(games) ==
        IF games # <<>> THEN games
        ELSE StandardTableGames(table.frags, 1, <<>>, team_name, base_url, now)
      Matrix(team_row_idx) ==
        IF team_row_idx = 0 THEN <<>>
        ELSE MatrixRowGames(MatrixCells(table.rows[team_row_idx], table.rows[1]), 1,
                            team_name, base_url, now)
  IN Result(Matrix(TeamRowIndex(table.rows, team_name)))

\* FallbackGameMonitor._parse_schedule_block and _parse_schedule_block_from_text
_parse_schedule_block(frag, team_name, base_url, now) ==
  LET Kept(g) == IF g = None THEN <<>> ELSE <<g>> IN
  IF Len(frag.text) < MinBlockLen THEN <<>>
  ELSE Kept(RowGame(frag, team_name, base_url, now))

\* re.sub(team_name, ...) takes the team name as a pattern: re.error is
\* raised for a name with a group left open or closed unopened, or with a
\* repeat operator in front
ReCompileFails(pattern) ==
  \/ Cardinality({k \in 1..Len(pattern) : pattern[k] = "("})
       # Cardinality({k \in 1..Len(pattern) : pattern[k] = ")"})
  \/ pattern # <<>> /\ pattern[1] \in {"*", "+", "?"}

\* FallbackGameMonitor._extract_game_info_from_text: no date check here; an
\* exception in it is caught and None returned
_extract_game_info_from_text(frag, team_name) ==
  LET text == frag.text
      Record(date_match) ==
        IF date_match = NoMatch THEN None
        ELSE IF ReCompileFails(team_name) THEN None
        ELSE [NoGame EXCEPT
                !.date = Zfill2(date_match.day) \o <<".">> \o Zfill2(date_match.month)
                         \o <<".">>
                         \o (IF Len(date_match.year) = 2
                             THEN <<"2", "0">> \o date_match.year
                             ELSE date_match.year),
                !.time = FirstGameTimeFrom(
                           Prefix(After(text, date_match.end), LinkTimeWindow), 1),
                !.opponent = IF frag.opponent = <<>> THEN DefaultOpponent
                             ELSE frag.opponent,
                !.venue = <<>>]
  IN Record(DateSearch(text))

\* FallbackGameMonitor._extract_game_info_from_page on the text of the linked
\* game page; frag.ok is whether the fetch answered 200
_extract_game_info_from_page(frag, team_name, now) ==
  LET text == frag.text
      Record(date_match, date_str, game_date) ==
        IF game_date = NoDate THEN None
        ELSE IF DateLE(game_date, now) THEN None
        ELSE [NoGame EXCEPT
                !.date = date_str,
                !.time = FirstGameTimeFrom(
                           Prefix(After(text, date_match.end), LinkTimeWindow), 1),
                !.opponent = IF frag.opponent = <<>> THEN DefaultOpponent
                             ELSE frag.opponent,
                !.venue = frag.venue]
      Normalized(date_match, date_str) ==
        Record(date_match, date_str, Strptime(date_str))
      FirstDate(date_match) ==
        IF date_match = NoMatch THEN None
        ELSE Normalized(date_match,
                        Zfill2(date_match.day) \o <<".">> \o Zfill2(date_match.month)
                        \o <<".">>
                        \o (IF Len(date_match.year) = 2
                            THEN <<"2", "0">> \o date_match.year
                            ELSE date_match.year))
  IN IF ~frag.ok THEN None ELSE FirstDate(DateSearch(text))

\* Strategy 3 of _parse_single_page on one game link that names the team.
\* An anchor is [link, parent, linked, href, game_id]: the link text, the
\* parent's text, the linked page (ok = FALSE when the fetch fails), the link
\* target and the id the target carries (Absent when none).
\* TextGameInfo is game_info after the link text and the parent text were
\* tried, AnchorGame what the link adds to games.
TextGameInfo(a, team_name) ==
  LET FromLink(has_date_in_link, from_link) ==
        IF ~has_date_in_link THEN None
        ELSE IF from_link # None THEN from_link
        ELSE IF a.parent.text # <<>>
             THEN _extract_game_info_from_text(a.parent, team_name)
             ELSE None
  IN FromLink(DateSearch(a.link.text \o a.parent.text) # NoMatch,
              _extract_game_info_from_text(a.link, team_name))

\* "if not game_info:" after the texts were tried: the linked game page is
\* fetched by _extract_game_info_from_page
FetchesLinkedPage(a, team_name) == TextGameInfo(a, team_name) = None

AnchorGame(a, team_name, now) ==
  LET Filtered(game_info, game_date) ==
        IF game_date = NoDate THEN <<>>
        ELSE IF DateLE(game_date, now) THEN <<>>
        ELSE <<[game_info EXCEPT !.url = a.href, !.team_name = team_name,
                                 !.game_id = a.game_id]>>
      Checked(game_info) ==
        IF game_info = None THEN <<>>
        ELSE Filtered(game_info, Strptime(game_info.date))
  IN Checked(IF FetchesLinkedPage(a, team_name)
             THEN _extract_game_info_from_page(a.linked, team_name, now)
             ELSE TextGameInfo(a, team_name))

\* the calendar match recorded without looking for the team in it
CalendarGameUnconfirmed(c, team_name, url, now) ==
  LET Filtered(game_date) ==
        IF game_date = NoDate THEN <<>>
        ELSE IF DateLE(game_date, now) THEN <<>>
        ELSE <<[NoGame EXCEPT
                  !.date = c.date_str,
                  !.time = DefaultTime,
                  !.opponent = Strip(c.team2_text),
                  !.venue = NotSpecified,
                  !.team_name = team_name,
                  !.url = url]>>
  IN Filtered(Strptime(c.date_str))

\* Strategy 4 of _parse_single_page on one match of the calendar pattern:
\* [date_str, team1_text, team2_text], the groups of the match
CalendarGame(c, team_name, url, now) ==
  LET Confirmed(segment) ==
        Truthy(_find_matching_variant(_normalize_name_for_search(Strip(segment)),
                                      _build_name_variants(team_name)))
      Filtered(game_date, opponent) ==
        IF game_date = NoDate THEN <<>>
        ELSE IF DateLE(game_date, now) THEN <<>>
        ELSE <<[NoGame EXCEPT
                  !.date = c.date_str,
                  !.time = DefaultTime,
                  !.opponent = opponent,
                  !.venue = NotSpecified,
                  !.team_name = team_name,
                  !.url = url]>>
      Matched(in_team1, in_team2) ==
        IF ~(in_team1 \/ in_team2) THEN <<>>
        ELSE Filtered(Strptime(c.date_str),
                      IF in_team1 THEN Strip(c.team2_text) ELSE Strip(c.team1_text))
  IN Matched(Confirmed(c.team1_text), Confirmed(c.team2_text))

\* what one item of a page contributes under its own strategy
ItemGames(item, team_name, url, now) ==
  CASE item.kind = "table" -> _parse_schedule_table(item, team_name, url, now)
    [] item.kind = "block" -> _parse_schedule_block(item.frag, team_name, url, now)
    [] item.kind = "anchor" -> AnchorGame(item, team_name, now)
    [] item.kind = "calendar" -> CalendarGame(item, team_name, url, now)
    [] item.kind = "marked" -> <<>>

\* the games of the items of one kind, in document order; by_item[i] is
\* what items[i] yields under its own strategy
RECURSIVE KindGames(_, _, _, _)
KindGames(items, by_item, i, kind) ==
  IF i > Len(items) THEN <<>>
  ELSE (IF items[i].kind = kind THEN by_item[i] ELSE <<>>)
       \o KindGames(items, by_item, i + 1, kind)

\* ------------------------------------------------------------- pages

FragZenit == Frag(TxtZenit, FALSE)

FragZenitCaps == Frag(TxtZenitCaps, FALSE)

FragEarly == Frag(TxtEarly, FALSE)

FragPastThenFuture == Frag(TxtPastThenFuture, FALSE)

FragInvalidDate == Frag(TxtInvalidDate, FALSE)

FragNoDate == Frag(TxtNoDate, FALSE)

FragFar == Frag(TxtFar, FALSE)

Block(frag) == [kind |-> "block", frag |-> frag]

Table(rows, frags) == [kind |-> "table", rows |-> rows, frags |-> frags]

Linked(ok, text, opponent, venue) ==
  [ok |-> ok, text |-> text, opponent |-> opponent, venue |-> venue]

Anchor(link, parent, linked) ==
  [kind |-> "anchor", link |-> link, parent |-> parent, linked |-> linked,
   href |-> GameHref, game_id |-> GameId]

Calendar(date_str, team1_text, team2_text) ==
  [kind |-> "calendar", date_str |-> date_str, team1_text |-> team1_text,
   team2_text |-> team2_text]

\* a div, tr or li element whose class matches game|match|calendar|schedule
Marked == [kind |-> "marked"]

\* a table whose team row holds one yearless date and whose other rows hold
\* the same game once as a cell and once cut from the row text
TableMixed ==
  Table(<<<<<<>>, <<>>, Lion>>, <<<<"1">>, TeamName, CellMay15>>>>,
        <<FragZenit, [FragZenit EXCEPT !.by_row = TRUE]>>)

\* '22.11 d', a home game on 22 November
CellNov22 == <<"2", "2", ".", "1", "1", " ", "d">>

\* '29.11 g', an away game on 29 November
CellNov29 == <<"2", "9", ".", "1", "1", " ", "g">>

\* the cross table of a league: header ['', '', 'Lion', 'Zenit'] and the rows
\* ['2', 'Lion', '', '29.11 g'] and ['1', 'Vintage', '22.11 d', '29.11 g']
TableCross ==
  Table(<<<<<<>>, <<>>, Lion, Zenit>>,
          <<<<"2">>, Lion, <<>>, CellNov29>>,
          <<<<"1">>, TeamName, CellNov22, CellNov29>>>>,
        <<>>)

\* a cross table whose header row names the team itself in the third
\* column and ends there
TableOwnColumn ==
  Table(<<<<<<>>, <<>>, TeamName>>,
          <<<<"1">>, TeamName, CellNov22, CellNov29>>>>,
        <<>>)

NoText == LinkText(<<>>, <<>>)

AnchorDated == Anchor(LinkText(LinkZenit2, Zenit2), NoText,
                      Linked(FALSE, <<>>, <<>>, <<>>))

AnchorPast == Anchor(LinkText(LinkPast, Lion), NoText,
                     Linked(TRUE, LinkedPage, Lion, Hall))

AnchorUndated == Anchor(LinkText(LinkNoDate, Zenit), NoText,
                        Linked(TRUE, LinkedPage, Lion, Hall))

\* the tables, blocks, links and calendar match a page of another site is
\* made of
Items ==
  {Block(FragZenit), Block(FragZenitCaps), Block(FragEarly),
   Block(FragPastThenFuture), Block(FragInvalidDate), Block(FragNoDate),
   Block(FragFar), TableMixed, TableCross, TableOwnColumn,
   AnchorDated, AnchorPast, AnchorUndated,
   Calendar(D5Jan2026, TeamName, Lion)}

\* calendar_blocks is not empty: the document has a div, tr or li whose
\* class matches game|match|calendar|schedule
HasCalendarBlocks(items) == \E k \in 1..Len(items) : items[k].kind = "marked"

\* how fetching a URL ends without content: a status other than 200, an
\* exception out of the request (network error, timeout), no document from
\* the rendering fetch (shorter than its minimum length, or an error in it),
\* an empty body
FetchFailures == {"status", "timeout", "short", "empty"}

\* what the items of a document yield, each under its own strategy, in
\* document order
ByItem(items, team_name, url, now) ==
  [i \in 1..Len(items) |-> ItemGames(items[i], team_name, url, now)]

\* the strategies of _parse_single_page run in order on a fetched document:
\* tables, date-anchored blocks, game links, then the calendar text of a
\* globalleague.ru page on which the three gave nothing
PageGames(page, by_item) ==
  LET found == KindGames(page.items, by_item, 1, "table")
               \o KindGames(page.items, by_item, 1, "block")
               \o KindGames(page.items, by_item, 1, "anchor")
  IN IF page.globalleague /\ found = <<>> /\ ~HasCalendarBlocks(page.items)
     THEN KindGames(page.items, by_item, 1, "calendar")
     ELSE found

\* FallbackGameMonitor._parse_single_page.  A page is [fetch, globalleague,
\* url, items]: how the fetch ended ("ok" with content), whether the URL is a
\* globalleague.ru one, and the tables, date-anchored blocks, game links,
\* matches of the calendar pattern and class-marked elements of the document.
_parse_single_page(page, team_name, now) ==
  IF page.fetch \in FetchFailures THEN <<>>
  ELSE PageGames(page, ByItem(page.items, team_name, page.url, now))

\* sequences over S of length at most n
SeqUpTo(S, n) == UNION {[1..k -> S] : k \in 0..n}

\* a page whose fetch failed
FailedPage(gl, why) ==
  [fetch |-> why, globalleague |-> gl, url |-> SiteUrl, items |-> <<>>]

\* the items of the globalleague.ru pages: a block that yields a game,
\* calendar matches dated after and on the first day of run, one of two
\* other teams, and a class-marked element
GlobalLeagueItems ==
  {Block(FragZenit),
   Calendar(D5Jan2026, TeamName, Lion), Calendar(D1Jun2024, Lion, TeamName),
   Calendar(D5Jan2026, Zenit, Lion), Marked}

Pages ==
  {[fetch |-> "ok", globalleague |-> FALSE, url |-> SiteUrl, items |-> items] :
     items \in SeqUpTo(Items, MaxItems)}
  \cup {[fetch |-> "ok", globalleague |-> TRUE, url |-> SiteUrl, items |-> items] :
          items \in SeqUpTo(GlobalLeagueItems, MaxItems)}
  \cup {FailedPage(gl, why) : gl \in BOOLEAN, why \in FetchFailures}

\* the items whose records the reconciliation is run on
SiteItems ==
  {Block(FragZenit), Block(FragZenitCaps), AnchorDated,
   Calendar(D5Jan2026, TeamName, Lion)}

SeqRange(q) == {q[k] : k \in 1..Len(q)}

\* the records _parse_single_page can return for SiteItems on the day now
SiteGameUniverse(now) ==
  UNION {SeqRange(_parse_single_page(
                    [fetch |-> "ok", globalleague |-> TRUE, url |-> SiteUrl,
                     items |-> <<item>>], TeamName, now)) : item \in SiteItems}

\* game records as InfobasketSmartParser.format_poll_data hands them over
ApiZenit2 ==
  [NoGame EXCEPT !.date = D10Oct2025, !.time = T1800, !.venue = Hall,
                 !.team_a = TeamName, !.team_b = Zenit2]

ApiLion ==
  [NoGame EXCEPT !.date = D5Jan2026Padded, !.time = T1800,
                 !.team_name = TeamName, !.opponent = Lion]

ApiNoOpponent ==
  [NoGame EXCEPT !.date = D10Oct2025, !.time = T1800, !.venue = Arena,
                 !.team_a = TeamName, !.team_b = <<>>]

ApiGames == {ApiZenit2, ApiLion, ApiNoOpponent}

\* ------------------------------------------------------------ state

VARIABLES
  today,                \* get_moscow_time().date() of the run
  ppc,                  \* parse_fallback_page: "start", "pages", "done"
  page,                 \* the main page handed to _parse_single_page
  extracted,            \* what each item of the main page contributed
  games,                \* parse_fallback_page: games collected so far
  additional_left,      \* additional URLs still to parse
  fetched,              \* the pages parse_fallback_page has fetched so far
  linked_fetched,       \* per item of the main page: its linked game page was fetched
  search_team,          \* the team_name parse_fallback_page is called with
  unique_games,         \* parse_fallback_page: the list returned
  pc,                   \* process_fallback_config: "api", "site", "process", "done"
  api_games,            \* games from get_games_from_api
  all_site_games,       \* games of all searched teams, before deduplication
  site_games,           \* _remove_duplicate_games(all_site_games)
  site_idx,             \* next site game of the reconciliation loop
  api_idx,              \* next API game of the leftover loop
  processed_api_games,  \* indices of API games already merged
  submissions,          \* the calls of _create_poll_if_needed, in order
  search_pc,            \* the site search of process_fallback_config: "start", "loop", "done"
  search_config,        \* the config searched for, with what the team ids resolve to
  teams_to_search,      \* the names the site is searched for
  searched,             \* the calls of parse_fallback_page: the team names, in order
  poll_pc,              \* _create_poll_if_needed: "idle", "game", "done"
  row_call,             \* the text and team the game handed over was parsed for
  game_info,            \* the game handed to _create_poll_if_needed
  formatted_game,       \* what create_game_poll is called with, None if not called
  service_rows,         \* the records of duplicate protection, in the order added
  poll_log,             \* the calls of _create_poll_if_needed that returned, in order
  run_pc,               \* run_monitoring: "start", "loop", "raised", "returned"
  config_worksheet,     \* the config sheet: [available, rows]
  configs,              \* the list get_fallback_configs returned
  config_idx,           \* the config the loop of run_monitoring is at
  calls,                \* the calls of process_fallback_config and how they ended
  fetch_pc,             \* the step the fetch of _parse_single_page is at
  fetch_url,            \* the URL fetched
  PLAYWRIGHT_AVAILABLE, \* whether playwright could be imported
  driver,               \* async_playwright(): "none", "running", "stopped"
  browser,              \* the chromium browser: "none", "open", "closed"
  content,              \* the document fetched: [none, len]
  parsed_from           \* the fetch the page was parsed from: "none", "render", "get"

parse_vars ==
  <<ppc, page, search_team, fetched, linked_fetched, extracted, games,
    additional_left, unique_games>>

config_vars ==
  <<pc, api_games, all_site_games, site_games, site_idx, api_idx,
    processed_api_games, submissions>>

search_vars == <<search_pc, search_config, teams_to_search, searched>>

dedup_vars == <<service_rows, poll_log>>

poll_vars == <<poll_pc, row_call, game_info, formatted_game, dedup_vars>>

\* the variables of the operations other than parse_fallback_page and
\* process_fallback_config
run_vars == <<run_pc, config_worksheet, configs, config_idx, calls>>

fetch_vars ==
  <<fetch_pc, fetch_url, PLAYWRIGHT_AVAILABLE, driver, browser, content, parsed_from>>

monitor_vars == <<poll_vars, run_vars, fetch_vars>>

vars == <<today, parse_vars, config_vars, search_vars, monitor_vars>>

\* content = None
NoContent == [none |-> TRUE, len |-> 0]

\* self.config_worksheet is None
NoWorksheet == [available |-> FALSE, rows |-> <<>>]

\* the sheet of alternative names: absent, failing to be read, or its rows
\* below the header, each [cells, parsed_ids, alt_name]: how many cells the
\* row has, what _parse_ids makes of its third cell, its fourth cell
NoNameSheet == [available |-> FALSE, raises |-> FALSE, rows |-> <<>>]

\* no config handed to process_fallback_config yet
NoSearch ==
  [config |-> [comp_ids |-> <<>>, team_ids |-> <<>>, url |-> <<>>, name |-> <<>>],
   resolve |-> <<>>, sheet |-> NoNameSheet]

\* no schedule row behind the game handed over
NoCall == [text |-> Absent, team_name |-> Absent]

NoPage == FailedPage(FALSE, "status")

Init ==
  /\ today \in Todays
  /\ ppc = "start"
  /\ page = NoPage
  /\ extracted = <<>>
  /\ games = <<>>
  /\ additional_left = 0
  /\ fetched = <<>>
  /\ linked_fetched = <<>>
  /\ search_team = <<>>
  /\ unique_games = <<>>
  /\ pc = "api"
  /\ api_games = <<>>
  /\ all_site_games = <<>>
  /\ site_games = <<>>
  /\ site_idx = 1
  /\ api_idx = 1
  /\ processed_api_games = {}
  /\ submissions = <<>>
  /\ search_pc = "start"
  /\ search_config = NoSearch
  /\ teams_to_search = <<>>
  /\ searched = <<>>
  /\ poll_pc = "idle"
  /\ row_call = NoCall
  /\ game_info = None
  /\ formatted_game = None
  /\ service_rows = <<>>
  /\ poll_log = <<>>
  /\ run_pc = "start"
  /\ config_worksheet = NoWorksheet
  /\ configs = <<>>
  /\ config_idx = 1
  /\ calls = <<>>
  /\ fetch_pc = "idle"
  /\ fetch_url = <<>>
  /\ PLAYWRIGHT_AVAILABLE = FALSE
  /\ driver = "none"
  /\ browser = "none"
  /\ content = NoContent
  /\ parsed_from = "none"

\* ------------------------------------------------- parse_fallback_page

\* additional URLs parse_fallback_page tries for a globalleague.ru URL
AdditionalUrls == 3

\* what the additional pages may hold
AdditionalPages ==
  {FailedPage(TRUE, "short"),
   [fetch |-> "ok", globalleague |-> TRUE, url |-> SiteUrl,
    items |-> <<Block(FragEarly)>>]}

\* the games item i of page p contributes to _parse_single_page(p), given
\* what every item yields under its own strategy
ItemContribution(p, by_item, i) ==
  IF p.items[i].kind # "calendar" THEN by_item[i]
  ELSE IF p.globalleague
          /\ \A k \in 1..Len(p.items) : p.items[k].kind # "calendar" => by_item[k] = <<>>
          /\ ~HasCalendarBlocks(p.items)
       THEN by_item[i]
  ELSE <<>>

\* parse_fallback_page up to the main page: _parse_single_page(session, url, ...),
\* together with what each item of the document contributed to its result
ParseMainPageOf(p, team_name) ==
  /\ ppc = "start"
  /\ LET by_item == ByItem(p.items, team_name, p.url, today) IN
       /\ page' = p
       /\ search_team' = team_name
       /\ fetched' = <<p>>
       /\ linked_fetched' = [i \in 1..Len(p.items) |->
                               /\ p.items[i].kind = "anchor"
                               /\ FetchesLinkedPage(p.items[i], team_name)]
       /\ extracted' = [i \in 1..Len(p.items) |-> ItemContribution(p, by_item, i)]
       /\ games' = IF p.fetch \in FetchFailures THEN <<>> ELSE PageGames(p, by_item)
       /\ additional_left' = IF p.globalleague THEN AdditionalUrls ELSE 0
  /\ ppc' = "pages"
  /\ UNCHANGED <<today, search_vars, monitor_vars, unique_games, config_vars>>

ParseMainPage == \E p \in Pages : ParseMainPageOf(p, TeamName)

\* a failed additional page ends the call: the games collected are lost and
\* the URLs left are not fetched
ParseAdditionalPageAborts ==
  /\ ppc = "pages"
  /\ additional_left > 0
  /\ \E p \in AdditionalPages :
       /\ games' = IF p.fetch \in FetchFailures THEN <<>>
                   ELSE games \o _parse_single_page(p, search_team, today)
       /\ additional_left' = IF p.fetch \in FetchFailures THEN 0
                             ELSE additional_left - 1
       /\ fetched' = Append(fetched, p)
  /\ UNCHANGED <<today, search_vars, monitor_vars, ppc, page, search_team, linked_fetched, extracted,
                 unique_games, config_vars>>

\* one turn of the loop over additional_urls
ParseAdditionalPage ==
  /\ ppc = "pages"
  /\ additional_left > 0
  /\ \E p \in AdditionalPages :
       /\ games' = games \o _parse_single_page(p, search_team, today)
       /\ fetched' = Append(fetched, p)
  /\ additional_left' = additional_left - 1
  /\ UNCHANGED <<today, search_vars, monitor_vars, ppc, page, search_team, linked_fetched, extracted,
                 unique_games, config_vars>>

\* the end of parse_fallback_page: duplicates removed, list returned
ReturnUniqueGames ==
  /\ ppc = "pages"
  /\ additional_left = 0
  /\ unique_games' = _remove_duplicate_games(games)
  /\ ppc' = "done"
  /\ UNCHANGED <<today, search_vars, monitor_vars, page, search_team, fetched, linked_fetched,
                 extracted, games, additional_left,
                 config_vars>>

ParseNext == ParseMainPage \/ ParseAdditionalPage \/ ReturnUniqueGames

SpecParse == Init /\ [][ParseNext]_vars

\* ------------------------------------------ pages of game links

\* 'Vintage (U18', a team name that is no regular expression
TeamOpenGroup ==
  <<"V", "i", "n", "t", "a", "g", "e", " ", "(", "U", "1", "8">>

\* the team names a page of game links is searched for
LinkTeams == {TeamName, TeamOpenGroup}

\* a link without a date whose parent holds '10.10.2025 Zenit-2'
AnchorParentDated == Anchor(LinkText(LinkNoDate, Zenit), LinkText(LinkZenit2, Zenit2),
                            Linked(TRUE, LinkedPage, Lion, Hall))

\* a link without a date whose game page does not answer
AnchorUnreachable == Anchor(LinkText(LinkNoDate, Zenit), NoText,
                            Linked(FALSE, <<>>, <<>>, <<>>))

LinkItems ==
  {AnchorDated, AnchorPast, AnchorUndated, AnchorParentDated, AnchorUnreachable}

\* documents made of game links that name the team
LinkPages ==
  {[fetch |-> "ok", globalleague |-> FALSE, url |-> SiteUrl, items |-> items] :
     items \in SeqUpTo(LinkItems, MaxItems)}

\* parse_fallback_page up to the main page, on a page of game links
ParseLinkPage ==
  \E p \in LinkPages : \E team_name \in LinkTeams : ParseMainPageOf(p, team_name)

LinksNext == ParseLinkPage \/ ReturnUniqueGames

SpecLinks == Init /\ [][LinksNext]_vars

\* ------------------------------------------------ pages of a cross table

\* most date cells in the team's row of a cross table
MaxCells == 2

\* '29.02', a day only leap years have
CellFeb29 == <<"2", "9", ".", "0", "2">>

\* '31.02', a day no year has
CellFeb31 == <<"3", "1", ".", "0", "2">>

\* '10.09' and '09.09': 30 and 31 days before 10.10.2025
CellSep10 == <<"1", "0", ".", "0", "9">>

CellSep9 == <<"0", "9", ".", "0", "9">>

\* '02.05' and '01.05': 30 and 31 days before 01.06.2024
CellMay2 == <<"0", "2", ".", "0", "5">>

CellMay1 == <<"0", "1", ".", "0", "5">>

\* '10.10', the later day of run itself
CellOct10 == <<"1", "0", ".", "1", "0">>

\* '25.12.2025', a date cell with its year
CellDec25 == <<"2", "5", ".", "1", "2", ".", "2", "0", "2", "5">>

\* '22.11 19:30' and '22.11 7:30', date cells that carry a time
CellEvening == <<"2", "2", ".", "1", "1", " ", "1", "9", ":", "3", "0">>

CellMorning == <<"2", "2", ".", "1", "1", " ", "7", ":", "3", "0">>

CellTexts ==
  {CellMay15, CellNov22, CellFeb29, CellFeb31, CellSep10, CellSep9, CellMay2,
   CellMay1, CellOct10, CellDec25, CellEvening, CellMorning}

\* the cross table with header ['', '', 'Lion', 'Zenit'] whose team row holds
\* the cells given
CrossTableOf(cells) ==
  Table(<<<<<<>>, <<>>, Lion, Zenit>>, <<<<"1">>, TeamName>> \o cells>>, <<>>)

\* documents that hold one cross table
MatrixPages ==
  {[fetch |-> "ok", globalleague |-> FALSE, url |-> SiteUrl,
    items |-> <<CrossTableOf(cells)>>] : cells \in SeqUpTo(CellTexts, MaxCells)}

\* parse_fallback_page up to the main page, on a page with a cross table
ParseMatrixPage == \E p \in MatrixPages : ParseMainPageOf(p, TeamName)

MatrixNext == ParseMatrixPage \/ ReturnUniqueGames

SpecMatrix == Init /\ [][MatrixNext]_vars

\* ------------------------- process_fallback_config: the teams searched

\* str.split(','): the parts of s between its commas
RECURSIVE SplitComma(_)
SplitComma(s) ==
  LET commas == {k \in 1..Len(s) : s[k] = ","} IN
  IF commas = {} THEN <<s>>
  ELSE <<SubSeq(s, 1, Min(commas) - 1)>> \o SplitComma(After(s, Min(commas)))

\* [name.strip() for name in fallback_name.split(',') if name.strip()]
RECURSIVE StrippedParts(_, _)
StrippedParts(parts, i) ==
  IF i > Len(parts) THEN <<>>
  ELSE (IF Strip(parts[i]) # <<>> THEN <<Strip(parts[i])>> ELSE <<>>)
       \o StrippedParts(parts, i + 1)

\* "for team_id in team_ids": the names _resolve_team_name gives, stripped
RECURSIVE ResolvedNames(_, _, _)
ResolvedNames(team_ids, resolve, i) ==
  IF i > Len(team_ids) THEN <<>>
  ELSE (IF Truthy(resolve[team_ids[i]]) THEN <<Strip(resolve[team_ids[i]])>> ELSE <<>>)
       \o ResolvedNames(team_ids, resolve, i + 1)

\* "for row in all_data[1:]": the alternative names of the rows that carry
\* one of team_ids, each added once
RECURSIVE AlternativeNames(_, _, _, _)
AlternativeNames(rows, i, team_ids, teams) ==
  IF i > Len(rows) THEN teams
  ELSE AlternativeNames(
         rows, i + 1, team_ids,
         IF /\ rows[i].cells >= 3
            /\ \E k \in 1..Len(team_ids) : team_ids[k] \in rows[i].parsed_ids
            /\ Strip(rows[i].alt_name) # <<>>
            /\ \A k \in 1..Len(teams) : teams[k] # Strip(rows[i].alt_name)
         THEN Append(teams, Strip(rows[i].alt_name))
         ELSE teams)

\* the names of the config sheet are searched beside the fallback names
TeamsOfEverySource(search) ==
  LET config == search.config
      fallback_names == StrippedParts(SplitComma(Strip(config.name)), 1)
      resolved == ResolvedNames(config.team_ids, search.resolve, 1)
  IN fallback_names
     \o (IF search.sheet.available /\ ~search.sheet.raises
         THEN AlternativeNames(search.sheet.rows, 1, config.team_ids, resolved)
         ELSE resolved)

\* teams_to_search of process_fallback_config for a config with a URL: the
\* fallback names, or without one the names of team_ids and the alternative
\* names of their rows
TeamsToSearch(search) ==
  LET config == search.config
      fallback_names == StrippedParts(SplitComma(Strip(config.name)), 1)
      resolved == ResolvedNames(config.team_ids, search.resolve, 1)
  IN IF fallback_names # <<>> THEN fallback_names
     ELSE IF config.team_ids = <<>> THEN <<>>
     ELSE IF search.sheet.available /\ ~search.sheet.raises
     THEN AlternativeNames(search.sheet.rows, 1, config.team_ids, resolved)
     ELSE resolved

\* ' Lion ', a name with blanks around it
LionPadded == <<" ">> \o Lion \o <<" ">>

\* 'Vintage, Zenit'
NameTwo == TeamName \o <<",", " ">> \o Zenit

\* ' ,, ': commas and blanks only
NameBlank == <<" ", ",", ",", " ">>

\* ',Vintage ,'
NameCommas == <<",">> \o TeamName \o <<" ", ",">>

\* the fallback name fields, the team ids and the URLs of the configs
\* searched for
SearchNames == {<<>>, TeamName, NameTwo, NameBlank, NameCommas}

SearchTeamIds == {<<>>, <<1>>, <<1, 2>>}

SearchUrls == {<<>>, SiteUrl}

\* what _resolve_team_name gives for the ids 1 and 2
Resolvers == {<<Absent, Absent>>, <<LionPadded, Absent>>, <<Zenit, Lion>>}

\* the sheets of alternative names
NameSheets ==
  {NoNameSheet,
   [available |-> TRUE, raises |-> TRUE, rows |-> <<>>],
   [available |-> TRUE, raises |-> FALSE,
    rows |-> <<[cells |-> 4, parsed_ids |-> {1}, alt_name |-> Arena],
               [cells |-> 4, parsed_ids |-> {2}, alt_name |-> Lion],
               [cells |-> 2, parsed_ids |-> {}, alt_name |-> <<>>],
               [cells |-> 4, parsed_ids |-> {3}, alt_name |-> Hall]>>]}

\* Step 2 of process_fallback_config up to the loop over teams_to_search
ChooseTeamsToSearch ==
  /\ search_pc = "start"
  /\ \E name \in SearchNames, team_ids \in SearchTeamIds, url \in SearchUrls,
        resolve \in Resolvers, sheet \in NameSheets :
       LET search == [config |-> [comp_ids |-> <<>>, team_ids |-> team_ids,
                                  url |-> url, name |-> name],
                      resolve |-> resolve, sheet |-> sheet]
       IN /\ search_config' = search
          /\ teams_to_search' = IF url = <<>> THEN <<>> ELSE TeamsToSearch(search)
          /\ search_pc' = IF url = <<>> \/ TeamsToSearch(search) = <<>>
                          THEN "done" ELSE "loop"
  /\ UNCHANGED <<today, parse_vars, config_vars, monitor_vars, searched>>

\* one turn of "for team_name in teams_to_search": parse_fallback_page(url,
\* team_name)
SearchTeam ==
  /\ search_pc = "loop"
  /\ Len(searched) < Len(teams_to_search)
  /\ searched' = Append(searched, teams_to_search[Len(searched) + 1])
  /\ UNCHANGED <<today, parse_vars, config_vars, monitor_vars, search_pc, search_config,
                 teams_to_search>>

\* the loop is over: site_games = _remove_duplicate_games(all_site_games)
FinishSearch ==
  /\ search_pc = "loop"
  /\ Len(searched) = Len(teams_to_search)
  /\ search_pc' = "done"
  /\ UNCHANGED <<today, parse_vars, config_vars, monitor_vars, search_config,
                 teams_to_search, searched>>

SearchNext == ChooseTeamsToSearch \/ SearchTeam \/ FinishSearch

SpecSearch == Init /\ [][SearchNext]_vars

\* ---------------------------------------------- process_fallback_config

\* the inner loop without the check of processed_api_games: the variant C2 is
\* shown to tell apart
RECURSIVE FirstSameGame(_, _, _, _)
FirstSameGame(api, site_game, processed, idx) ==
  IF idx > Len(api) THEN 0
  ELSE IF _compare_games(api[idx], site_game) THEN idx
  ELSE FirstSameGame(api, site_game, processed, idx + 1)

\* the inner loop "for idx, api_game in enumerate(api_games)" from index idx
\* on: the first index not in processed whose game _compare_games accepts,
\* or 0 when the loop ends without a break
RECURSIVE FindApiMatch(_, _, _, _)
FindApiMatch(api, site_game, processed, idx) ==
  IF idx > Len(api) THEN 0
  ELSE IF idx \in processed THEN FindApiMatch(api, site_game, processed, idx + 1)
  ELSE IF _compare_games(api[idx], site_game) THEN idx
  ELSE FindApiMatch(api, site_game, processed, idx + 1)

\* a merge in which the API record overwrites the site record: the variant
\* C5 is shown to tell apart
ApiPriority(matched_api_game, site_game) == DictMerge(site_game, matched_api_game)

\* merged_game: the API record overwritten by the site record, with the five
\* fields for which the site value wins only when it is non-empty
MergedGame(matched_api_game, site_game) ==
  [DictMerge(matched_api_game, site_game) EXCEPT
     !.date = Or(site_game.date, matched_api_game.date),
     !.time = Or(site_game.time, matched_api_game.time),
     !.venue = Or(site_game.venue, Get(matched_api_game.venue, NotSpecified)),
     !.opponent = Or(Or(site_game.opponent, matched_api_game.team_b),
                     matched_api_game.opponent),
     !.team_name = Or(Or(site_game.team_name, matched_api_game.team_a),
                      matched_api_game.team_name)]

\* one call of _create_poll_if_needed(game, source), with the indices of the
\* site game and the API game it was made for (0 for none)
Submission(game, source, site, api) ==
  [game |-> game, source |-> source, site |-> site, api |-> api]

\* Step 1: get_games_from_api (an empty list when the config has no ids)
GetGamesFromApi ==
  /\ pc = "api"
  /\ api_games' \in SeqUpTo(ApiGames, MaxApi)
  /\ pc' = "site"
  /\ UNCHANGED <<today, search_vars, monitor_vars, parse_vars, all_site_games, site_games, site_idx,
                 api_idx, processed_api_games, submissions>>

\* Step 2: parse_fallback_page for every searched team, then
\* _remove_duplicate_games over the concatenation
SearchSite ==
  /\ pc = "site"
  /\ all_site_games' \in SeqUpTo(SiteGameUniverse(today), MaxSite)
  /\ site_games' = _remove_duplicate_games(all_site_games')
  /\ pc' = "process"
  /\ UNCHANGED <<today, search_vars, monitor_vars, parse_vars, api_games, site_idx, api_idx,
                 processed_api_games, submissions>>

\* the turn in which a site game without an API match is passed over
ReconcileMatchedOnly ==
  /\ pc = "process"
  /\ api_games # <<>> /\ site_games # <<>>
  /\ site_idx <= Len(site_games)
  /\ LET site_game == site_games[site_idx]
         matched_api_idx == FindApiMatch(api_games, site_game, processed_api_games, 1)
     IN IF matched_api_idx # 0
        THEN /\ submissions' =
                  Append(submissions,
                         Submission(MergedGame(api_games[matched_api_idx], site_game),
                                    "site_priority", site_idx, matched_api_idx))
             /\ processed_api_games' = processed_api_games \cup {matched_api_idx}
        ELSE UNCHANGED <<submissions, processed_api_games>>
  /\ site_idx' = site_idx + 1
  /\ UNCHANGED <<today, search_vars, monitor_vars, parse_vars, pc, api_games, all_site_games, site_games, api_idx>>

\* Step 3, both lists non-empty: one turn of "for site_game in site_games"
ReconcileSiteGame ==
  /\ pc = "process"
  /\ api_games # <<>> /\ site_games # <<>>
  /\ site_idx <= Len(site_games)
  /\ LET site_game == site_games[site_idx]
         matched_api_idx == FindApiMatch(api_games, site_game, processed_api_games, 1)
     IN IF matched_api_idx # 0
        THEN /\ submissions' =
                  Append(submissions,
                         Submission(MergedGame(api_games[matched_api_idx], site_game),
                                    "site_priority", site_idx, matched_api_idx))
             /\ processed_api_games' = processed_api_games \cup {matched_api_idx}
        ELSE /\ submissions' =
                  Append(submissions, Submission(site_game, "site_only", site_idx, 0))
             /\ UNCHANGED processed_api_games
  /\ site_idx' = site_idx + 1
  /\ UNCHANGED <<today, search_vars, monitor_vars, parse_vars, pc, api_games, all_site_games, site_games, api_idx>>

\* the loop over the API games without the skip of matched games: the
\* variant C1 is shown to tell apart
SubmitEveryApiGame ==
  /\ pc = "process"
  /\ api_games # <<>> /\ site_games # <<>>
  /\ site_idx > Len(site_games)
  /\ api_idx <= Len(api_games)
  /\ submissions' =
       Append(submissions, Submission(api_games[api_idx], "api_only", 0, api_idx))
  /\ api_idx' = api_idx + 1
  /\ UNCHANGED <<today, search_vars, monitor_vars, parse_vars, pc, api_games, all_site_games, site_games,
                 site_idx, processed_api_games>>

\* the loop over the API games running alongside the loop over the site
\* games: the variant C3 is shown to tell apart
LeftoverApiAnyTime ==
  /\ pc = "process"
  /\ api_games # <<>> /\ site_games # <<>>
  /\ api_idx <= Len(api_games)
  /\ submissions' =
       IF api_idx \notin processed_api_games
       THEN Append(submissions, Submission(api_games[api_idx], "api_only", 0, api_idx))
       ELSE submissions
  /\ api_idx' = api_idx + 1
  /\ UNCHANGED <<today, search_vars, monitor_vars, parse_vars, pc, api_games, all_site_games, site_games,
                 site_idx, processed_api_games>>

\* Step 3, both lists non-empty: one turn of the loop over the API games
\* after the site loop
ReconcileLeftoverApi ==
  /\ pc = "process"
  /\ api_games # <<>> /\ site_games # <<>>
  /\ site_idx > Len(site_games)
  /\ api_idx <= Len(api_games)
  /\ submissions' =
       IF api_idx \notin processed_api_games
       THEN Append(submissions, Submission(api_games[api_idx], "api_only", 0, api_idx))
       ELSE submissions
  /\ api_idx' = api_idx + 1
  /\ UNCHANGED <<today, search_vars, monitor_vars, parse_vars, pc, api_games, all_site_games, site_games,
                 site_idx, processed_api_games>>

\* Step 3, "elif api_games": one turn of the loop
ProcessApiOnly ==
  /\ pc = "process"
  /\ api_games # <<>> /\ site_games = <<>>
  /\ api_idx <= Len(api_games)
  /\ submissions' =
       Append(submissions, Submission(api_games[api_idx], "api_only", 0, api_idx))
  /\ api_idx' = api_idx + 1
  /\ UNCHANGED <<today, search_vars, monitor_vars, parse_vars, pc, api_games, all_site_games, site_games,
                 site_idx, processed_api_games>>

\* Step 3, "elif site_games": one turn of the loop
ProcessSiteOnly ==
  /\ pc = "process"
  /\ api_games = <<>> /\ site_games # <<>>
  /\ site_idx <= Len(site_games)
  /\ submissions' =
       Append(submissions, Submission(site_games[site_idx], "site_only", site_idx, 0))
  /\ site_idx' = site_idx + 1
  /\ UNCHANGED <<today, search_vars, monitor_vars, parse_vars, pc, api_games, all_site_games, site_games,
                 api_idx, processed_api_games>>

\* every loop of step 3 that applies has run to its end
LoopsFinished ==
  /\ (site_games # <<>> => site_idx > Len(site_games))
  /\ (api_games # <<>> => api_idx > Len(api_games))

\* process_fallback_config returns
FinishConfig ==
  /\ pc = "process"
  /\ LoopsFinished
  /\ pc' = "done"
  /\ UNCHANGED <<today, search_vars, monitor_vars, parse_vars, api_games, all_site_games, site_games,
                 site_idx, api_idx, processed_api_games, submissions>>

Next ==
  \/ GetGamesFromApi
  \/ SearchSite
  \/ ReconcileSiteGame
  \/ ReconcileLeftoverApi
  \/ ProcessApiOnly
  \/ ProcessSiteOnly
  \/ FinishConfig

Spec == Init /\ [][Next]_vars

\* ------------------------------------------------ _create_poll_if_needed

\* the keys of the dict handed to create_game_poll
FormattedFields ==
  {"game_id", "date", "time", "team1", "team2", "team1_id", "team2_id",
   "our_team_id", "venue", "comp_id", "game_link", "our_team_name",
   "opponent_team_name", "team_type"}

\* opponent.strip() with the venue taken out of it when it holds the venue
CleanOpponent(opponent, venue_clean) ==
  LET Collapsed(replaced) == Strip(SingleSpaced(Strip(replaced)))
      Cleaned(opponent_clean) ==
        IF Truthy(venue_clean) /\ IsSubstr(venue_clean, opponent_clean)
        THEN Collapsed(ReplaceText(opponent_clean, venue_clean, <<>>))
        ELSE opponent_clean
  IN Cleaned(Strip(opponent))

\* The game _create_poll_if_needed hands to create_game_poll, None when it
\* returns without a poll: the game is today's or past, or one of the
\* duplicate checks (service sheet, game id, game key) answers that the
\* poll exists.
_create_poll_if_needed(info, now, exists) ==
  LET date == info.date
      time == Get(info.time, DefaultTime)
      team_name == Or(info.team_name, Get(info.team_a, <<>>))
      opponent == Or(info.opponent, Get(info.team_b, <<>>))
      venue_clean == Strip(Get(info.venue, <<>>))
      Positioned == Truthy(info.team1) /\ Truthy(info.team2)
      Formatted(opponent_clean, team1_from_info, team2_from_info, team1_id, team2_id) ==
        [game_id |-> info.game_id,
         date |-> date,
         time |-> time,
         team1 |-> Or(team1_from_info, team_name),
         team2 |-> Or(team2_from_info, opponent_clean),
         team1_id |-> team1_id,
         team2_id |-> team2_id,
         our_team_id |-> IF team1_from_info = team_name THEN team1_id ELSE team2_id,
         venue |-> Or(venue_clean, NotSpecified),
         comp_id |-> Absent,
         game_link |-> Or(info.url, <<>>),
         our_team_name |-> team_name,
         opponent_team_name |-> opponent_clean,
         team_type |-> "configured"]
      Placed(opponent_clean) ==
        IF Positioned
        THEN Formatted(opponent_clean, info.team1, info.team2,
                       IF info.team1 = team_name THEN 1
                       ELSE IF info.team2 = team_name THEN 2 ELSE 1,
                       IF info.team1 = team_name THEN 2
                       ELSE IF info.team2 = team_name THEN 1 ELSE 2)
        ELSE Formatted(opponent_clean, team_name, opponent_clean, 1, 2)
      Checked(opponent_clean) ==
        IF Truthy(date) /\ Truthy(team_name) /\ Truthy(opponent_clean) /\ exists
        THEN None
        ELSE Placed(opponent_clean)
      Dated(game_date) ==
        IF game_date # NoDate /\ DateLE(game_date, now) THEN None
        ELSE Checked(CleanOpponent(opponent, venue_clean))
  IN IF Truthy(date) THEN Dated(Strptime(date)) ELSE Checked(CleanOpponent(opponent, venue_clean))

\* ---- games handed over by the other producers

\* 'Zenit MarvelHall'
ZenitAtMarvelHall == Zenit \o <<" ">> \o MarvelHall

\* 'Zenit MarvelMarvelHallHall'
ZenitMarvelTwice ==
  Zenit \o <<" ">> \o SubSeq(MarvelHall, 1, 6) \o MarvelHall \o SubSeq(MarvelHall, 7, 10)

SiteGame(date, opponent, venue) ==
  [NoGame EXCEPT !.date = date, !.time = DefaultTime, !.opponent = opponent,
                 !.venue = venue, !.team_name = TeamName, !.url = SiteUrl]

PollGames ==
  {SiteGame(D5Jan2026, Zenit, MarvelHall),
   SiteGame(D5Jan2026, ZenitAtMarvelHall, MarvelHall),
   SiteGame(D5Jan2026, ZenitMarvelTwice, MarvelHall),
   SiteGame(D5Jan2026, Zenit, <<>>),
   SiteGame(D10Oct2025, Lion, NotSpecified),
   [SiteGame(D5Jan2026, Zenit, NotSpecified) EXCEPT !.team1 = Lion, !.team2 = Zenit],
   [NoGame EXCEPT !.date = D5Jan2026, !.time = DefaultTime, !.team_a = TeamName,
                  !.team_b = Lion, !.game_id = <<"7">>]}
  \cup ApiGames

\* a schedule row is parsed for a team and the record is handed over as
\* its callers store it
ExtractScheduleRow ==
  /\ poll_pc = "idle"
  /\ \E text \in RowTexts, team_name \in Teams :
       /\ RowGame(Frag(text, FALSE), team_name, SiteUrl, today) # None
       /\ game_info' = [RowGame(Frag(text, FALSE), team_name, SiteUrl, today)
                          EXCEPT !.url = SiteUrl]
       /\ row_call' = [text |-> text, team_name |-> team_name]
  /\ poll_pc' = "game"
  /\ UNCHANGED <<today, search_vars, parse_vars, config_vars, run_vars, fetch_vars, formatted_game,
                 dedup_vars>>

\* a game of another producer (page text, matrix table, API) is handed over
ReceiveGame ==
  /\ poll_pc = "idle"
  /\ game_info' \in PollGames
  /\ poll_pc' = "game"
  /\ UNCHANGED <<today, search_vars, parse_vars, config_vars, run_vars, fetch_vars, row_call,
                 formatted_game, dedup_vars>>

CreatePollIfNeeded ==
  /\ poll_pc = "game"
  /\ \E exists \in BOOLEAN :
       formatted_game' = _create_poll_if_needed(game_info, today, exists)
  /\ poll_pc' = "done"
  /\ UNCHANGED <<today, search_vars, parse_vars, config_vars, run_vars, fetch_vars, row_call,
                 game_info, dedup_vars>>

PollNext ==
  \/ ExtractScheduleRow
  \/ ReceiveGame
  \/ CreatePollIfNeeded

SpecPoll == Init /\ [][PollNext]_vars

\* --------------------- _create_poll_if_needed and duplicate protection

\* str.split(c): the parts of s between the occurrences of the character c
RECURSIVE SplitChar(_, _)
SplitChar(s, c) ==
  LET at == {k \in 1..Len(s) : s[k] = c} IN
  IF at = {} THEN <<s>>
  ELSE <<SubSeq(s, 1, Min(at) - 1)>> \o SplitChar(After(s, Min(at)), c)

\* c.join(parts)
RECURSIVE Join(_, _)
Join(parts, c) ==
  IF parts = <<>> THEN <<>>
  ELSE IF Len(parts) = 1 THEN parts[1]
  ELSE parts[1] \o <<c>> \o Join(Tail(parts), c)

\* game_system_manager.create_game_key: date_time_team1_team2
create_game_key(game) ==
  Join(<<game.date, game.time, game.team1, game.team2>>, "_")

\* FallbackGameMonitor._create_game_key
_create_game_key(date, time, team_name, opponent) ==
  create_game_key([date |-> date, time |-> ReplaceText(time, <<".">>, <<":">>),
                   team1 |-> team_name, team2 |-> opponent])

\* 'Istochnik: ' (source), the head of additional_data
SourceLabel == <<"I", "s", "t", "o", "c", "h", "n", "i", "k", ":", " ">>

\* the sources process_fallback_config names, as texts
SiteOnly == <<"s", "i", "t", "e", "_", "o", "n", "l", "y">>

ApiOnly == <<"a", "p", "i", "_", "o", "n", "l", "y">>

\* the opponent is one of the teams of a key date_time_team1_team2
OpponentInKey(row_key, opponent_clean) ==
  LET key_parts == SplitChar(row_key, "_")
      times == {i \in 1..Len(key_parts) :
                  /\ \E k \in 1..Len(key_parts[i]) : key_parts[i][k] = ":"
                  /\ Len(key_parts[i]) <= 6}
      opponent_variants == _build_name_variants(opponent_clean)
      Teams2(team_parts) ==
        LET key_team1 == IF Len(team_parts) > 2
                         THEN Join(SubSeq(team_parts, 1, Len(team_parts) - 1), "_")
                         ELSE team_parts[1]
            key_team2 == team_parts[Len(team_parts)]
        IN \/ _normalize_name_for_search(opponent_clean)
                = _normalize_name_for_search(key_team1)
           \/ _normalize_name_for_search(opponent_clean)
                = _normalize_name_for_search(key_team2)
           \/ Truthy(_find_matching_variant(_normalize_name_for_search(key_team1),
                                            opponent_variants))
           \/ Truthy(_find_matching_variant(_normalize_name_for_search(key_team2),
                                            opponent_variants))
  IN /\ opponent_clean # <<>> /\ row_key # <<>>
     /\ Len(key_parts) >= 4
     /\ times # {}
     /\ Min(times) + 2 <= Len(key_parts)
     /\ Teams2(SubSeq(key_parts, Min(times) + 1, Len(key_parts)))

\* the opponent is named in additional_data
OpponentInAdditional(row_additional, opponent_clean) ==
  /\ row_additional # <<>>
  /\ \E variant \in _build_name_variants(opponent_clean) :
       \/ IsSubstr(_normalize_name_for_search(variant),
                   _normalize_name_for_search(row_additional))
       \/ Truthy(_find_matching_variant(_normalize_name_for_search(row_additional),
                                        _build_name_variants(opponent_clean)))

\* the loop over the rows of the service sheet: a poll record of the same
\* date and time that names the opponent
FoundInServiceSheet(rows, date, time, opponent_clean) ==
  \E r \in 1..Len(rows) :
    /\ Strip(rows[r].game_date) = date
    /\ ReplaceText(Strip(rows[r].game_time), <<".">>, <<":">>)
         = ReplaceText(time, <<".">>, <<":">>)
    /\ \/ OpponentInKey(Strip(rows[r].key), opponent_clean)
       \/ OpponentInAdditional(Strip(rows[r].additional_data), opponent_clean)

\* duplicate_protection.get_game_record and check_duplicate: a record stored
\* under the identifier
RecordExists(rows, identifier) == \E r \in 1..Len(rows) : rows[r].key = identifier

\* the duplicate checks of _create_poll_if_needed, made when date, team name
\* and cleaned opponent are all non-empty: service sheet (when it can be
\* read), game id, game key
PollExists(rows, info, sheet_read) ==
  LET date == info.date
      time == Get(info.time, DefaultTime)
      team_name == Or(info.team_name, Get(info.team_a, <<>>))
      opponent_clean == CleanOpponent(Or(info.opponent, Get(info.team_b, <<>>)),
                                      Strip(Get(info.venue, <<>>)))
  IN \/ sheet_read /\ FoundInServiceSheet(rows, date, time, opponent_clean)
     \/ Truthy(info.game_id) /\ RecordExists(rows, info.game_id)
     \/ RecordExists(rows, _create_game_key(date, time, team_name, opponent_clean))

\* game_key is bound when the poll has been created: the block of the
\* duplicate checks was entered
GameKeyBound(formatted) ==
  Truthy(formatted.date) /\ Truthy(formatted.our_team_name)
  /\ Truthy(formatted.opponent_team_name)

\* duplicate_protection.add_record for the poll created
PollRecord(formatted, source) ==
  [key |-> IF Truthy(formatted.game_id) THEN formatted.game_id
           ELSE _create_game_key(formatted.date, formatted.time,
                                 formatted.our_team_name, formatted.opponent_team_name),
   additional_data |-> SourceLabel \o source,
   game_id |-> formatted.game_id,
   game_date |-> formatted.date,
   game_time |-> formatted.time]

\* most calls of _create_poll_if_needed followed
MaxCalls == 2

\* ' ', a team name of blanks as a record may carry it
DedupGame(date, time, team_name, opponent, game_id) ==
  [NoGame EXCEPT !.date = date, !.time = time, !.team_name = team_name,
                 !.opponent = opponent, !.venue = NotSpecified, !.game_id = game_id]

\* '20.00', the default time written with a dot
T2000Dot == <<"2", "0", ".", "0", "0">>

\* '31.02.2026', no calendar date
D31Feb2026 == <<"3", "1", ".", "0", "2", ".", "2", "0", "2", "6">>

\* the games handed over with their source: one game with and without a
\* game id and with the time written both ways, games without team name,
\* without opponent and without date, a game with a date that is none, and
\* a game dated on the later day of run
DedupCalls ==
  {[game |-> DedupGame(D5Jan2026Padded, DefaultTime, TeamName, Zenit, Absent),
    source |-> SiteOnly],
   [game |-> DedupGame(D5Jan2026Padded, T2000Dot, TeamName, Zenit, Absent),
    source |-> SiteOnly],
   [game |-> DedupGame(D5Jan2026Padded, DefaultTime, TeamName, Zenit, <<"7">>),
    source |-> ApiOnly],
   [game |-> DedupGame(D5Jan2026Padded, DefaultTime, <<>>, Zenit, Absent),
    source |-> SiteOnly],
   [game |-> DedupGame(D5Jan2026Padded, DefaultTime, TeamName, <<>>, Absent),
    source |-> SiteOnly],
   [game |-> DedupGame(Absent, DefaultTime, TeamName, Zenit, Absent),
    source |-> ApiOnly],
   [game |-> DedupGame(D31Feb2026, DefaultTime, TeamName, Lion, Absent),
    source |-> SiteOnly],
   [game |-> DedupGame(D10Oct2025, DefaultTime, TeamName, Lion, Absent),
    source |-> SiteOnly]}

\* process_fallback_config calls _create_poll_if_needed(game, source), from
\* entry to return: the date check, the duplicate checks, create_game_poll,
\* which answers with a question or with none, and add_record; without
\* date, team name or opponent game_key was never bound and reading it
\* raises, which the function catches
CreatePollAndRecord ==
  /\ poll_pc = "idle"
  /\ Len(poll_log) < MaxCalls
  /\ \E call \in DedupCalls, sheet_read \in BOOLEAN, question \in BOOLEAN :
       LET formatted == _create_poll_if_needed(call.game, today,
                                               PollExists(service_rows, call.game,
                                                          sheet_read))
           created == formatted # None /\ question
           recorded == created /\ GameKeyBound(formatted)
       IN /\ game_info' = call.game
          /\ formatted_game' = formatted
          /\ service_rows' = IF recorded
                             THEN Append(service_rows, PollRecord(formatted, call.source))
                             ELSE service_rows
          /\ poll_log' = Append(poll_log, [game |-> call.game, created |-> created,
                                           recorded |-> recorded])
  /\ UNCHANGED <<today, search_vars, parse_vars, config_vars, run_vars, fetch_vars, poll_pc,
                 row_call>>

DedupNext == CreatePollAndRecord

SpecDedup == Init /\ [][DedupNext]_vars

\* ------------------------------------------------ get_fallback_configs

\* columns of a config row: type, competition ids, team ids, alternative
\* name, settings, week days, fallback URL, fallback team
required_len == 8

\* the end-of-configuration markers of the type column ('KONETS' stands for
\* the Cyrillic marker)
EndMarkers ==
  {<<"E", "N", "D">>, <<"E", "N", "D", "_", "C", "O", "N", "F", "I", "G">>, <<"C", "O", "N", "F", "I", "G", "_", "E", "N", "D">>, <<"E", "N", "D", " ", "O", "F", " ", "C", "O", "N", "F", "I", "G">>, <<"K", "O", "N", "E", "T", "S">>,
   <<"-", "-", "-", " ", "E", "N", "D", " ", "-", "-", "-">>, <<"=", "=", "=", " ", "E", "N", "D", " ", "=", "=", "=">>}

\* the section headers of the type column ('ID GOLOSOVANIYA' and 'TIP' stand
\* for the Cyrillic headers)
SectionHeaders ==
  {<<"I", "D", " ", "G", "O", "L", "O", "S", "O", "V", "A", "N", "I", "Y", "A">>, <<"-", "-", "-", " ", "E", "N", "D", " ", "V", "O", "T", "I", "N", "G", " ", "-", "-", "-">>, <<"T", "I", "P">>}

UrlPrefixes == {<<"h", "t", "t", "p", ":", "/", "/">>, <<"h", "t", "t", "p", "s", ":", "/", "/">>}

\* row_extended: the row padded with '' to required_len cells
RowExtended(row) ==
  [k \in 1..(IF Len(row) < required_len THEN required_len ELSE Len(row)) |->
     IF k <= Len(row) THEN row[k] ELSE <<>>]

\* the config of a row that carries a fallback URL; the id cells are handed
\* to duplicate_protection._parse_ids as they are
RowConfig(row_extended) ==
  [comp_ids |-> row_extended[2],
   team_ids |-> row_extended[3],
   url |-> Strip(row_extended[7]),
   name |-> Strip(row_extended[8])]

\* the fallback URL cell is blank or is no http(s) URL
NoFallbackUrl(fallback_url) ==
  \/ Strip(fallback_url) = <<>>
  \/ ~\E prefix \in UrlPrefixes : StartsWith(Strip(fallback_url), prefix)

\* the loop with the end marker forgotten: rows below it are still read
RECURSIVE ConfigsPastEndMarker(_, _, _, _)
ConfigsPastEndMarker(all_data, i, found_end_marker, fallback_configs) ==
  LET Row(row_extended, first_cell) ==
        IF first_cell \in EndMarkers
        THEN ConfigsPastEndMarker(all_data, i + 1, FALSE, fallback_configs)
        ELSE IF first_cell \in SectionHeaders
        THEN ConfigsPastEndMarker(all_data, i + 1, FALSE, fallback_configs)
        ELSE IF NoFallbackUrl(row_extended[7])
        THEN ConfigsPastEndMarker(all_data, i + 1, FALSE, fallback_configs)
        ELSE ConfigsPastEndMarker(all_data, i + 1, FALSE,
                                  Append(fallback_configs, RowConfig(row_extended)))
      Extended(row_extended) == Row(row_extended, Upper(Strip(row_extended[1])))
  IN IF i > Len(all_data) THEN fallback_configs
     ELSE IF all_data[i] = <<>>
     THEN ConfigsPastEndMarker(all_data, i + 1, FALSE, fallback_configs)
     ELSE Extended(RowExtended(all_data[i]))

\* the loop of get_fallback_configs over all_data[1:], from row i on
RECURSIVE FallbackConfigsFrom(_, _, _, _)
FallbackConfigsFrom(all_data, i, found_end_marker, fallback_configs) ==
  LET Row(row_extended, first_cell) ==
        IF first_cell \in EndMarkers
        THEN FallbackConfigsFrom(all_data, i + 1, TRUE, fallback_configs)
        ELSE IF found_end_marker
        THEN FallbackConfigsFrom(all_data, i + 1, found_end_marker, fallback_configs)
        ELSE IF first_cell \in SectionHeaders
        THEN FallbackConfigsFrom(all_data, i + 1, found_end_marker, fallback_configs)
        ELSE IF NoFallbackUrl(row_extended[7])
        THEN FallbackConfigsFrom(all_data, i + 1, found_end_marker, fallback_configs)
        ELSE FallbackConfigsFrom(all_data, i + 1, found_end_marker,
                                 Append(fallback_configs, RowConfig(row_extended)))
      Extended(row_extended) == Row(row_extended, Upper(Strip(row_extended[1])))
  IN IF i > Len(all_data) THEN fallback_configs
     ELSE IF all_data[i] = <<>>
     THEN FallbackConfigsFrom(all_data, i + 1, found_end_marker, fallback_configs)
     ELSE Extended(RowExtended(all_data[i]))

\* FallbackGameMonitor.get_fallback_configs on the rows of the config sheet
get_fallback_configs(worksheet) ==
  IF ~worksheet.available THEN <<>>
  ELSE IF Len(worksheet.rows) <= 1 THEN <<>>
  ELSE FallbackConfigsFrom(worksheet.rows, 2, FALSE, <<>>)

\* ---- config sheets

\* most rows below the header row of a sheet
MaxRows == 3

HttpsUrl == <<"h", "t", "t", "p", "s", ":", "/", "/", "s", "i", "t", "e", "/">>

\* a URL cell with blanks around the URL
HttpUrlPadded == <<" ", "h", "t", "t", "p", ":", "/", "/", "s", "i", "t", "e", "/", " ">>

FtpUrl == <<"f", "t", "p", ":", "/", "/", "s", "i", "t", "e", "/">>

Ids == <<"1", "2">>

TypeFallback == <<"F", "A", "L", "L", "B", "A", "C", "K">>

HeaderRow ==
  <<<<"T", "I", "P">>, <<>>, <<>>, <<>>, <<>>, <<>>, <<"U", "R", "L", " ", "F", "A", "L", "L", "B", "A", "C", "K">>, <<>>>>

\* rows with and without a URL, with and without type, ids and team; an end
\* marker and a section header, each carrying a URL; an empty row
ConfigRows ==
  {<<TypeFallback, Ids, Ids, <<>>, <<>>, <<>>, HttpsUrl, TeamName>>,
   <<<<>>, <<>>, <<>>, <<>>, <<>>, <<>>, HttpUrlPadded>>,
   <<TypeFallback, Ids, Ids>>,
   <<TypeFallback, <<>>, <<>>, <<>>, <<>>, <<>>, FtpUrl, TeamName>>,
   <<<<" ", "e", "n", "d", " ">>, <<>>, <<>>, <<>>, <<>>, <<>>, HttpsUrl, TeamName>>,
   <<<<"-", "-", "-", " ", "E", "N", "D", " ", "V", "O", "T", "I", "N", "G", " ", "-", "-", "-">>, <<>>, <<>>, <<>>, <<>>, <<>>, HttpsUrl, TeamName>>,
   <<>>}

\* the sheets: none, empty, and a header row with up to MaxRows rows
Worksheets ==
  {NoWorksheet, [available |-> TRUE, rows |-> <<>>]}
  \cup {[available |-> TRUE, rows |-> <<HeaderRow>> \o rows] :
          rows \in UNION {[1..n -> ConfigRows] : n \in 0..MaxRows}}

\* ---------------------------------------------------------- run_monitoring

\* configs = self.get_fallback_configs(); return when there are none
GetFallbackConfigs ==
  /\ run_pc = "start"
  /\ \E worksheet \in Worksheets :
       /\ config_worksheet' = worksheet
       /\ configs' = get_fallback_configs(worksheet)
       /\ run_pc' = IF get_fallback_configs(worksheet) = <<>> THEN "returned" ELSE "loop"
  /\ UNCHANGED <<today, search_vars, parse_vars, config_vars, poll_vars, fetch_vars, config_idx, calls>>

\* process_fallback_config(config) returns
ProcessConfigReturns ==
  /\ run_pc = "loop"
  /\ config_idx <= Len(configs)
  /\ calls' = Append(calls, [config |-> configs[config_idx], raised |-> FALSE])
  /\ config_idx' = config_idx + 1
  /\ UNCHANGED <<today, search_vars, parse_vars, config_vars, poll_vars, fetch_vars, run_pc, config_worksheet,
                 configs>>

\* an exception out of process_fallback_config ends run_monitoring
ProcessConfigAborts ==
  /\ run_pc = "loop"
  /\ config_idx <= Len(configs)
  /\ calls' = Append(calls, [config |-> configs[config_idx], raised |-> TRUE])
  /\ run_pc' = "raised"
  /\ UNCHANGED <<today, search_vars, parse_vars, config_vars, poll_vars, fetch_vars, config_worksheet,
                 configs, config_idx>>

\* process_fallback_config(config) raises an Exception, which the loop
\* catches and prints
ProcessConfigRaises ==
  /\ run_pc = "loop"
  /\ config_idx <= Len(configs)
  /\ calls' = Append(calls, [config |-> configs[config_idx], raised |-> TRUE])
  /\ config_idx' = config_idx + 1
  /\ UNCHANGED <<today, search_vars, parse_vars, config_vars, poll_vars, fetch_vars, run_pc, config_worksheet,
                 configs>>

\* the loop is through: run_monitoring returns
FinishMonitoring ==
  /\ run_pc = "loop"
  /\ config_idx > Len(configs)
  /\ run_pc' = "returned"
  /\ UNCHANGED <<today, search_vars, parse_vars, config_vars, poll_vars, fetch_vars, config_worksheet,
                 configs, config_idx, calls>>

RunNext ==
  \/ GetFallbackConfigs
  \/ ProcessConfigReturns
  \/ ProcessConfigRaises
  \/ FinishMonitoring

SpecRun == Init /\ [][RunNext]_vars

\* --------------------------------------------------- fetching a page

\* js_sites
js_sites ==
  {<<"g", "l", "o", "b", "a", "l", "l", "e", "a", "g", "u", "e", ".", "r", "u">>,
   <<"n", "e", "v", "a", "-", "b", "a", "s", "k", "e", "t", ".", "r", "u">>}

\* FallbackGameMonitor._needs_playwright
_needs_playwright(url) == \E site \in js_sites : IsSubstr(site, url)

\* shortest rendered document _fetch_with_playwright returns
MinContentLen == 1000

ContentOf(len) == [none |-> FALSE, len |-> len]

UrlGlobalLeague == <<"h", "t", "t", "p", "s", ":", "/", "/", "g", "l", "o", "b", "a", "l", "l", "e", "a", "g", "u", "e", ".", "r", "u", "/", "a">>

UrlNevaBasket == <<"h", "t", "t", "p", ":", "/", "/", "n", "e", "v", "a", "-", "b", "a", "s", "k", "e", "t", ".", "r", "u", "/">>

UrlOther == <<"h", "t", "t", "p", "s", ":", "/", "/", "s", "i", "t", "e", "/">>

\* a page of another site whose query names globalleague.ru
UrlMention == <<"h", "t", "t", "p", "s", ":", "/", "/", "s", "i", "t", "e", "/", "?", "q", "=", "g", "l", "o", "b", "a", "l", "l", "e", "a", "g", "u", "e", ".", "r", "u">>

\* the globalleague.ru host as typed with capitals
UrlCapitals == <<"h", "t", "t", "p", "s", ":", "/", "/", "G", "l", "o", "b", "a", "l", "L", "e", "a", "g", "u", "e", ".", "r", "u", "/", "a">>

Urls == {UrlGlobalLeague, UrlNevaBasket, UrlOther, UrlMention, UrlCapitals}

\* what every step of the fetch leaves alone
OtherThanFetch == <<today, search_vars, parse_vars, config_vars, poll_vars, run_vars>>

\* the rendering fetch chosen without looking at PLAYWRIGHT_AVAILABLE
UnconditionalPlaywright(available, url) == _needs_playwright(url)

\* use_playwright = PLAYWRIGHT_AVAILABLE and self._needs_playwright(url)
UsePlaywright(available, url) == available /\ _needs_playwright(url)

\* _parse_single_page: the choice between _fetch_with_playwright and
\* session.get
ChooseFetchPath ==
  /\ fetch_pc = "idle"
  /\ \E url \in Urls, available \in BOOLEAN :
       /\ fetch_url' = url
       /\ PLAYWRIGHT_AVAILABLE' = available
       /\ fetch_pc' = IF UsePlaywright(available, url) THEN "playwright" ELSE "get"
  /\ UNCHANGED <<OtherThanFetch, driver, browser, content, parsed_from>>

\* async with session.get(url): a status other than 200 returns [], an
\* exception is caught by _parse_single_page, which returns []
SessionGet ==
  /\ fetch_pc = "get"
  /\ \/ \E len \in {0, MinContentLen - 1, MinContentLen + 1} :
          /\ content' = ContentOf(len)
          /\ fetch_pc' = "fetched"
     \/ /\ fetch_pc' = "returned"
        /\ UNCHANGED content
  /\ UNCHANGED <<OtherThanFetch, fetch_url, PLAYWRIGHT_AVAILABLE, driver, browser,
                 parsed_from>>

\* async with async_playwright() as p
StartPlaywright ==
  /\ fetch_pc = "playwright"
  /\ \/ driver' = "running" /\ fetch_pc' = "launch"
     \/ fetch_pc' = "fetched" /\ UNCHANGED driver
  /\ UNCHANGED <<OtherThanFetch, fetch_url, PLAYWRIGHT_AVAILABLE, browser, content,
                 parsed_from>>

\* browser = await p.chromium.launch(...); an exception leaves the
\* async with block
LaunchBrowser ==
  /\ fetch_pc = "launch"
  /\ \/ browser' = "open" /\ fetch_pc' = "new_context"
     \/ fetch_pc' = "exit" /\ UNCHANGED browser
  /\ UNCHANGED <<OtherThanFetch, fetch_url, PLAYWRIGHT_AVAILABLE, driver, content,
                 parsed_from>>

\* context = await browser.new_context(...), before the try block
NewContext ==
  /\ fetch_pc = "new_context"
  /\ fetch_pc' \in {"new_page", "exit"}
  /\ UNCHANGED <<OtherThanFetch, fetch_url, PLAYWRIGHT_AVAILABLE, driver, browser,
                 content, parsed_from>>

\* page = await context.new_page(), before the try block
NewPage ==
  /\ fetch_pc = "new_page"
  /\ fetch_pc' \in {"goto", "exit"}
  /\ UNCHANGED <<OtherThanFetch, fetch_url, PLAYWRIGHT_AVAILABLE, driver, browser,
                 content, parsed_from>>

\* await page.goto(url, ...), the first statement of the try block
Goto ==
  /\ fetch_pc = "goto"
  /\ fetch_pc' \in {"wait", "finally"}
  /\ UNCHANGED <<OtherThanFetch, fetch_url, PLAYWRIGHT_AVAILABLE, driver, browser,
                 content, parsed_from>>

\* wait_for_selector and wait_for_function, each in its own try/except:
\* a timeout of either is passed over
WaitForData ==
  /\ fetch_pc = "wait"
  /\ fetch_pc' = "scroll"
  /\ UNCHANGED <<OtherThanFetch, fetch_url, PLAYWRIGHT_AVAILABLE, driver, browser,
                 content, parsed_from>>

\* wait_for_timeout, the two scrolls and, for a globalleague.ru URL, the
\* guarded wait for table rows
ScrollPage ==
  /\ fetch_pc = "scroll"
  /\ fetch_pc' \in {"content", "finally"}
  /\ UNCHANGED <<OtherThanFetch, fetch_url, PLAYWRIGHT_AVAILABLE, driver, browser,
                 content, parsed_from>>

\* content = await page.content(); a document under MinContentLen gives None
PageContent ==
  /\ fetch_pc = "content"
  /\ \/ \E len \in {0, MinContentLen - 1, MinContentLen, MinContentLen + 1} :
          content' = IF len < MinContentLen THEN NoContent ELSE ContentOf(len)
     \/ UNCHANGED content
  /\ fetch_pc' = "finally"
  /\ UNCHANGED <<OtherThanFetch, fetch_url, PLAYWRIGHT_AVAILABLE, driver, browser,
                 parsed_from>>

\* finally: await browser.close()
CloseBrowser ==
  /\ fetch_pc = "finally"
  /\ browser' = "closed"
  /\ fetch_pc' = "exit"
  /\ UNCHANGED <<OtherThanFetch, fetch_url, PLAYWRIGHT_AVAILABLE, driver, content,
                 parsed_from>>

\* the end of the async with block; _fetch_with_playwright returns the
\* content, None after an exception
ExitPlaywright ==
  /\ fetch_pc = "exit"
  /\ driver' = "stopped"
  /\ fetch_pc' = "fetched"
  /\ UNCHANGED <<OtherThanFetch, fetch_url, PLAYWRIGHT_AVAILABLE, browser, content,
                 parsed_from>>

\* if not content: return []; else the document is parsed
ParseContent ==
  /\ fetch_pc = "fetched"
  /\ parsed_from' =
       IF content.none \/ content.len = 0 THEN "none"
       ELSE IF UsePlaywright(PLAYWRIGHT_AVAILABLE, fetch_url) THEN "render"
       ELSE "get"
  /\ fetch_pc' = "returned"
  /\ UNCHANGED <<OtherThanFetch, fetch_url, PLAYWRIGHT_AVAILABLE, driver, browser,
                 content>>

FetchNext ==
  \/ ChooseFetchPath
  \/ SessionGet
  \/ StartPlaywright
  \/ LaunchBrowser
  \/ NewContext
  \/ NewPage
  \/ Goto
  \/ WaitForData
  \/ ScrollPage
  \/ PageContent
  \/ CloseBrowser
  \/ ExitPlaywright
  \/ ParseContent

SpecFetch == Init /\ [][FetchNext]_vars

\* ------------------------------------------- claims on the reconciliation

\* the reconciliation of a config with games on both sides has started
BothSides ==
  pc \in {"process", "done"} /\ api_games # <<>> /\ site_games # <<>>

\* positions of the submissions made so far with a given source
SubmittedAs(source) ==
  {k \in 1..Len(submissions) : submissions[k].source = source}

\* indices of the API games merged by the submissions before position k
MatchedBefore(k) ==
  {submissions[j].api : j \in {i \in SubmittedAs("site_priority") : i < k}}

\* indices of the API games that are unmatched when submission k is made and
\* that _compare_games takes for the game of site game n
SameGameUnmatched(k, n) ==
  {j \in 1..Len(api_games) :
     j \notin MatchedBefore(k) /\ _compare_games(api_games[j], site_games[n])}

\* C1: with games on both sides, a site game for which an unmatched same-game
\* API game exists is submitted once, merged, as site_priority; a site game
\* without one is submitted as site_only; an API game never matched is
\* submitted as api_only, and a matched one is not submitted on its own.  One
\* API game {10.10.2025, Zenit-2} and one site game {10.10.2025, Zenit} give
\* exactly one submission, the merged one, with opponent Zenit.
C1_ProvenanceTags ==
  BothSides =>
    /\ \A k \in 1..Len(submissions) :
         LET s == submissions[k] IN
         CASE s.source = "site_priority" ->
                s.api \in SameGameUnmatched(k, s.site)
           [] s.source = "site_only" ->
                /\ SameGameUnmatched(k, s.site) = {}
                /\ s.game = site_games[s.site]
           [] s.source = "api_only" ->
                /\ s.api \notin MatchedBefore(k)
                /\ s.game = api_games[s.api]
           [] OTHER -> FALSE
    /\ pc = "done" =>
         /\ \A n \in 1..Len(site_games) :
              Cardinality({k \in 1..Len(submissions) : submissions[k].site = n}) = 1
         /\ \A j \in 1..Len(api_games) :
              Cardinality({k \in 1..Len(submissions) : submissions[k].api = j}) = 1
    /\ ( /\ pc = "done"
         /\ api_games = <<ApiZenit2>>
         /\ Len(site_games) = 1
         /\ site_games[1].date = D10Oct2025
         /\ site_games[1].opponent = Zenit )
       => /\ Len(submissions) = 1
          /\ submissions[1].source = "site_priority"
          /\ submissions[1].game.opponent = Zenit

\* a finished reconciliation that made a submission of each of the three kinds
C1_Witness ==
  /\ BothSides /\ pc = "done"
  /\ SubmittedAs("site_priority") # {}
  /\ SubmittedAs("site_only") # {}
  /\ SubmittedAs("api_only") # {}

\* C2: site games are visited in list order; the API game merged with a site
\* game is the lowest-index API game that is not yet matched and that
\* _compare_games accepts, and there is none exactly when the site game goes
\* out unmerged; a matched API game is never matched again, so the merges
\* pair site games and API games one to one, and the set of matched API
\* games is exactly the set the earlier submissions merged.
C2_GreedyOneToOne ==
  /\ \A k \in 1..Len(submissions) :
       submissions[k].site # 0 =>
         /\ submissions[k].site = k
         /\ LET free == SameGameUnmatched(k, k) IN
            submissions[k].api = IF free = {} THEN 0 ELSE Min(free)
  /\ \A k1, k2 \in SubmittedAs("site_priority") :
       k1 # k2 => /\ submissions[k1].api # submissions[k2].api
                  /\ submissions[k1].site # submissions[k2].site
  /\ processed_api_games = {submissions[k].api : k \in SubmittedAs("site_priority")}

\* two site games that both compare equal to the first API game: the first
\* takes it, the second takes the next one
C2_Witness ==
  /\ pc = "done"
  /\ Len(api_games) = 2 /\ Len(site_games) = 2
  /\ \A n \in 1..2 : _compare_games(api_games[1], site_games[n])
  /\ Len(submissions) = 2
  /\ submissions[1].api = 1
  /\ submissions[2].api = 2

\* C3: with games on both sides, the submissions are first one per site game
\* in site-list order, then, only after the last site game, the API games
\* left over in API-list order; no api_only submission precedes another kind.
C3_SubmissionOrder ==
  BothSides =>
    /\ \A k \in 1..Len(submissions) :
         IF k <= Len(site_games)
         THEN submissions[k].site = k /\ submissions[k].source # "api_only"
         ELSE submissions[k].source = "api_only"
    /\ \A i, j \in SubmittedAs("api_only") :
         i < j => submissions[i].api < submissions[j].api

\* two site games submitted, one merged and one not, then a leftover API game
C3_Witness ==
  /\ BothSides /\ pc = "done"
  /\ Len(site_games) = 2
  /\ Len(submissions) = 3
  /\ submissions[1].source = "site_only"
  /\ submissions[2].source = "site_priority"
  /\ submissions[3].source = "api_only"

\* the opponent _compare_games reads from a game, normalized
OpponentNorm(game) ==
  _normalize_name_for_search(
    Or(Or(Get(game.team_b, <<>>), Get(game.opponent, <<>>)), Get(game.team2, <<>>)))

\* one text is a substring of the other, or they are equal
Overlap(a, b) == IsSubstr(a, b) \/ IsSubstr(b, a) \/ a = b

\* both dates are valid and denote the same calendar date
SameCalendarDate(a, b) ==
  /\ Strptime(Get(a.date, <<>>)) # NoDate
  /\ Strptime(Get(a.date, <<>>)) = Strptime(Get(b.date, <<>>))

\* the pairs of an API game and a site game of a config that has been
\* reconciled
GamePairs ==
  IF pc = "done"
  THEN (1..Len(api_games)) \X (1..Len(site_games))
  ELSE {}

\* C4 as amended: for an API game and a site game with valid dates, the site
\* game naming an opponent, _compare_games is true exactly when the dates
\* denote the same calendar date, the API game's normalized opponent is not
\* empty, and one normalized opponent is a substring of the other or they
\* are equal; it is false whenever the dates differ.
C4_SameGame ==
  \A pr \in GamePairs :
    LET a == api_games[pr[1]]
        s == site_games[pr[2]]
    IN
    (Strptime(Get(a.date, <<>>)) # NoDate /\ Strptime(Get(s.date, <<>>)) # NoDate
     /\ OpponentNorm(s) # <<>>)
    => /\ _compare_games(a, s)
            = (/\ SameCalendarDate(a, s)
               /\ OpponentNorm(a) # <<>>
               /\ Overlap(OpponentNorm(a), OpponentNorm(s)))
       /\ (~SameCalendarDate(a, s) => ~_compare_games(a, s))

\* a finished reconciliation that compared a site game with an API game of
\* the same day written differently (5.1.2026 and 05.01.2026), and one that
\* compared a site game with an API game of its day that names no opponent
C4_Witness ==
  /\ pc = "done"
  /\ \E pr \in GamePairs :
       /\ api_games[pr[1]].date # site_games[pr[2]].date
       /\ _compare_games(api_games[pr[1]], site_games[pr[2]])
  /\ \E pr \in GamePairs :
       /\ SameCalendarDate(api_games[pr[1]], site_games[pr[2]])
       /\ OpponentNorm(api_games[pr[1]]) = <<>>
       /\ ~_compare_games(api_games[pr[1]], site_games[pr[2]])

\* C4 as stated: _compare_games is true exactly when the dates denote the
\* same calendar date and the normalized opponents overlap
C4_AsStated ==
  \A pr \in GamePairs :
    _compare_games(api_games[pr[1]], site_games[pr[2]])
      = (/\ SameCalendarDate(api_games[pr[1]], site_games[pr[2]])
         /\ Overlap(OpponentNorm(api_games[pr[1]]), OpponentNorm(site_games[pr[2]])))

\* the value the API game gives for a field of the merged record
ApiValue(a, f) ==
  CASE f = "opponent" -> Or(a.team_b, a.opponent)
    [] f = "team_name" -> Or(a.team_a, a.team_name)
    [] OTHER -> a[f]

\* C5: in a merged record each of date, time, venue, opponent and team name
\* is the site game's value when that value is non-empty, and the API game's
\* value (where the API game has one) when the site value is empty or absent.
\* Of the five, only the venue of an extracted site game can be empty.
C5_SitePrecedence ==
  \A k \in SubmittedAs("site_priority") :
    LET s == site_games[submissions[k].site]
        a == api_games[submissions[k].api]
        m == submissions[k].game
    IN \A f \in {"date", "time", "venue", "opponent", "team_name"} :
         /\ Truthy(s[f]) => m[f] = s[f]
         /\ (~Truthy(s[f]) /\ ApiValue(a, f) # Absent) => m[f] = ApiValue(a, f)

\* a merged record whose time is the site's although the API gives another,
\* and whose venue is the API's because the site game has none
C5_Witness ==
  \E k \in SubmittedAs("site_priority") :
    LET s == site_games[submissions[k].site]
        a == api_games[submissions[k].api]
        m == submissions[k].game
    IN /\ s.venue = <<>> /\ a.venue = Hall /\ m.venue = Hall
       /\ Truthy(a.time) /\ a.time # s.time /\ m.time = s.time

\* the key of the claim: (date, normalize(opponent), normalize(team_name))
ClaimKey(game) ==
  <<Get(game.date, <<>>),
    _normalize_name_for_search(Get(game.opponent, <<>>)),
    _normalize_name_for_search(Get(game.team_name, <<>>))>>

\* positions of L that hold the first record with their key
FirstOfKey(L) ==
  {i \in 1..Len(L) : \A j \in 1..(i - 1) : ClaimKey(L[j]) # ClaimKey(L[i])}

\* the k-th smallest element of a set of positions
NthOf(S, k) == CHOOSE i \in S : Cardinality({j \in S : j <= i}) = k

\* C6: _remove_duplicate_games(L) is the subsequence of L that keeps, for
\* every key, exactly the first record of L with that key, in the order of
\* L; no two records of it share a key and every key of L is a key in it.
C6_KeepsFirstPerKey ==
  pc = "done" =>
    /\ Len(site_games) = Cardinality(FirstOfKey(all_site_games))
    /\ \A k \in 1..Len(site_games) :
         site_games[k] = all_site_games[NthOf(FirstOfKey(all_site_games), k)]
    /\ \A k1, k2 \in 1..Len(site_games) :
         k1 # k2 => ClaimKey(site_games[k1]) # ClaimKey(site_games[k2])
    /\ {ClaimKey(all_site_games[i]) : i \in 1..Len(all_site_games)}
         = {ClaimKey(site_games[k]) : k \in 1..Len(site_games)}

\* two different records with one key (Zenit at 20:00, ZENIT at 19:30): the
\* first is kept
C6_Witness ==
  /\ pc = "done"
  /\ Len(all_site_games) = 2
  /\ all_site_games[1] # all_site_games[2]
  /\ ClaimKey(all_site_games[1]) = ClaimKey(all_site_games[2])
  /\ site_games = <<all_site_games[1]>>

\* C7: deduplication is idempotent: removing duplicates from the result of
\* _remove_duplicate_games changes nothing.
C7_DedupIdempotent ==
  pc = "done" => _remove_duplicate_games(site_games) = site_games

\* a list with a repeated record, deduplicated to a shorter non-empty list
C7_Witness ==
  /\ pc = "done"
  /\ Len(all_site_games) = 2
  /\ all_site_games[1] = all_site_games[2]
  /\ Len(site_games) = 1
  /\ _remove_duplicate_games(site_games) = site_games

\* ----------------------------------------------- claims on the extraction

\* the date text denotes a calendar date after the day of the run
AfterToday(date_str) ==
  /\ Strptime(date_str) # NoDate
  /\ DateKey(Strptime(date_str)) > DateKey(today)

\* C8: every record page extraction returns, from a table, a date-anchored
\* block, a game link or the calendar text, is dated strictly after the
\* current date; this holds of what each item contributes, of the list
\* _parse_single_page builds and of the list parse_fallback_page returns.
C8_OnlyFutureGames ==
  /\ \A i \in 1..Len(extracted) :
       \A k \in 1..Len(extracted[i]) : AfterToday(extracted[i][k].date)
  /\ \A k \in 1..Len(games) : AfterToday(games[k].date)
  /\ \A k \in 1..Len(unique_games) : AfterToday(unique_games[k].date)

\* a page with an item dated on the day of the run, which contributes
\* nothing, and a returned list that is not empty
C8_Witness ==
  /\ ppc = "done"
  /\ unique_games # <<>>
  /\ \E i \in 1..Len(page.items) :
       /\ page.items[i].kind = "calendar"
       /\ Strptime(page.items[i].date_str) = today
       /\ extracted[i] = <<>>

\* the text has the shape of the date pattern: one or two digits, a dot, one
\* or two digits, a dot, two to four digits
IsDateText(t) ==
  /\ Cardinality(DotPositions(t)) = 2
  /\ LET p1 == Min(DotPositions(t))
         p2 == Min(DotPositions(t) \ {Min(DotPositions(t))})
     IN /\ p1 - 1 \in 1..2 /\ p2 - p1 - 1 \in 1..2 /\ Len(t) - p2 \in 2..4
        /\ \A i \in (1..Len(t)) \ {p1, p2} : IsDigit(t[i])

\* where the first date of the text starts and ends: the leftmost start of a
\* date text and the longest date text from there; <<0, 0>> when none
FirstDateSpan(text) ==
  LET spans == {sp \in {<<a, a + d>> : a \in 1..Len(text), d \in 4..9} :
                  /\ sp[2] <= Len(text)
                  /\ IsDateText(SubSeq(text, sp[1], sp[2]))}
  IN IF spans = {} THEN <<0, 0>>
     ELSE CHOOSE sp \in spans :
            \A other \in spans :
              \/ sp[1] < other[1]
              \/ (sp[1] = other[1] /\ sp[2] >= other[2])

\* the first date of the text with a two-digit year YY read as 20YY; the
\* empty text when the text holds no date
FirstDate(text) ==
  LET sp == FirstDateSpan(text)
      t == SubSeq(text, sp[1], sp[2])
      p2 == CHOOSE p \in DotPositions(t) : \A q \in DotPositions(t) : q <= p
  IN IF sp = <<0, 0>> THEN <<>>
     ELSE IF Len(t) - p2 = 2
          THEN SubSeq(t, 1, p2) \o <<"2", "0">> \o SubSeq(t, p2 + 1, Len(t))
          ELSE t

\* positions of the date-anchored blocks of the page parsed
BlockItems ==
  IF ppc = "start" THEN {}
  ELSE {i \in 1..Len(page.items) : page.items[i].kind = "block"}

\* C9: _extract_game_info_from_schedule_row yields no record when the
\* fragment holds no date pattern, when its first date pattern (a two-digit
\* year YY read as 20YY) is no valid calendar date, or when that date is
\* today or earlier, even if a later date of the fragment is in the future;
\* a record it does yield carries the first date of the fragment.
C9_FirstDateDecides ==
  \A i \in BlockItems :
    LET frag == page.items[i].frag
        first_date == FirstDate(frag.text)
        row == RowRecord(frag.text, TeamName, today)
    IN /\ first_date = <<>> => row = None
       /\ (first_date # <<>> /\ ~AfterToday(first_date)) => row = None
       /\ row # None => Strptime(row.date) = Strptime(first_date)
       /\ extracted[i] = IF row = None THEN <<>>
                         ELSE <<[row EXCEPT !.team_name = TeamName]>>

\* a page with a fragment whose first date is past and whose second date is
\* future, which yields nothing, and a fragment dated 10.10.25, which yields
\* a record dated 10.10.2025
C9_Witness ==
  /\ \E i \in BlockItems :
       /\ page.items[i].frag = FragPastThenFuture
       /\ extracted[i] = <<>>
  /\ \E i \in BlockItems :
       /\ page.items[i].frag = FragZenitCaps
       /\ extracted[i] # <<>>
       /\ extracted[i][1].date = D10Oct2025

\* the loop over the time patterns of a text from position i on, left to
\* right without overlap: the first with hour in 8..23 and minute in 0..59,
\* as HH:MM, else 20:00
RECURSIVE ClaimTimeFrom(_, _)
ClaimTimeFrom(s, i) ==
  LET starts == {k \in i..Len(s) : TimeMatchAt(s, k) # NoMatch} IN
  IF starts = {} THEN DefaultTime
  ELSE LET m == TimeMatchAt(s, Min(starts)) IN
       IF m.hours \in 8..23 /\ m.minutes \in 0..59
       THEN Fmt2(m.hours) \o <<":">> \o Fmt2(m.minutes)
       ELSE ClaimTimeFrom(s, m.end + 1)

\* C10 as amended: the time of a record of
\* _extract_game_info_from_schedule_row is the first time pattern (H:MM or
\* H.MM) within the RowTimeWindow characters that follow the date whose hour
\* is in 8..23 and whose minute is in 0..59; a candidate outside these bounds
\* is skipped, and the time is 20:00 when no candidate in that window
\* qualifies.  A fragment that holds "25.12.2025 07:45" gets 20:00.
C10_TimeWithinWindow ==
  \A i \in BlockItems :
    extracted[i] # <<>> =>
      /\ extracted[i][1].time =
           ClaimTimeFrom(
             Prefix(After(page.items[i].frag.text,
                          FirstDateSpan(page.items[i].frag.text)[2]),
                    RowTimeWindow), 1)
      /\ page.items[i].frag = FragEarly => extracted[i][1].time = DefaultTime

\* a page with a fragment whose only time lies past the window, which gets
\* 20:00, and a fragment with the times 7:15 and 19:30, which gets 19:30
C10_Witness ==
  /\ \E i \in BlockItems :
       /\ page.items[i].frag = FragFar
       /\ extracted[i] # <<>>
       /\ extracted[i][1].time = DefaultTime
  /\ \E i \in BlockItems :
       /\ page.items[i].frag = FragZenitCaps
       /\ extracted[i] # <<>>
       /\ extracted[i][1].time = <<"1", "9", ":", "3", "0">>

\* C10 as stated: the time is the first time pattern anywhere after the date
\* whose hour is in 8..23 and whose minute is in 0..59, else 20:00
C10_AsStated ==
  \A i \in BlockItems :
    extracted[i] # <<>> =>
      extracted[i][1].time =
        ClaimTimeFrom(After(page.items[i].frag.text,
                            FirstDateSpan(page.items[i].frag.text)[2]), 1)

\* the games of the pages fetched from the k-th on, a page whose fetch failed
\* giving none
RECURSIVE GamesOfFetched(_, _)
GamesOfFetched(pages, k) ==
  IF k > Len(pages) THEN <<>>
  ELSE (IF pages[k].fetch = "ok" THEN _parse_single_page(pages[k], TeamName, today)
        ELSE <<>>)
       \o GamesOfFetched(pages, k + 1)

\* C15: a fetch failure of one URL (status other than 200, network error or
\* timeout, rendered document below the minimum length, empty body) gives
\* no games for exactly that URL.  The games collected are at every point
\* the games of the pages fetched with content, in URL order, so those of
\* the other URLs are kept; and the main URL and every additional URL are
\* fetched whatever failed before: when the call returns, 1 + AdditionalUrls
\* pages were fetched for a globalleague.ru URL and one page otherwise.
C15_FetchFailureIsLocal ==
  ppc # "start" =>
    /\ games = GamesOfFetched(fetched, 1)
    /\ Len(fetched) + additional_left
         = 1 + (IF page.globalleague THEN AdditionalUrls ELSE 0)
    /\ ppc = "done" =>
         /\ additional_left = 0
         /\ unique_games = _remove_duplicate_games(games)

\* a call that returned the games of the main page and of the second
\* additional page although the first and third additional pages failed
C15_Witness ==
  /\ ppc = "done"
  /\ Len(fetched) = 4
  /\ fetched[1].fetch = "ok"
  /\ _parse_single_page(fetched[1], TeamName, today) # <<>>
  /\ fetched[2].fetch = "short"
  /\ fetched[3].fetch = "ok"
  /\ fetched[4].fetch = "short"
  /\ Len(unique_games) >= 2

\* C12: the venue of a game record is never empty: every record an
\* extraction strategy adds to the games of a page carries a venue found in
\* the text or the 'not specified' sentinel.
C12_VenueNeverEmpty ==
  \A k \in 1..Len(games) : Truthy(games[k].venue)

\* the cross tables of the main page whose team row was found
CrossTables ==
  {i \in 1..Len(page.items) :
     /\ page.items[i].kind = "table"
     /\ TeamRowIndex(page.items[i].rows, TeamName) # 0}

\* the columns, from the third on, of the team's row of a cross table whose
\* cell holds a date that resolves to a day after today
FutureColumns(table) ==
  LET team_row == table.rows[TeamRowIndex(table.rows, TeamName)]
      IsFuture(k) ==
        /\ k >= 3
        /\ Strip(team_row[k]) # <<>>
        /\ CellDateMatch(Strip(team_row[k])) # NoMatch
        /\ CellGameDate(CellDateMatch(Strip(team_row[k])), today) # NoDate
        /\ DateLT(today, CellGameDate(CellDateMatch(Strip(team_row[k])), today))
  IN SelectSeq([k \in 1..Len(team_row) |-> k], IsFuture)

\* the header cell of a column names an opponent: it exists, is not blank
\* and is not the team itself
NamesOpponent(headers, k) ==
  /\ k <= Len(headers)
  /\ Strip(headers[k]) # <<>>
  /\ _normalize_name_for_search(headers[k]) # _normalize_name_for_search(TeamName)

\* the opponents of a list of records
OpponentsOf(records) == [j \in 1..Len(records) |-> records[j].opponent]

\* C19 (amended): in the matrix strategy each date cell of the team's row at
\* a column from the third on whose resolved date is in the future gives
\* one record, in column order, whose opponent is the text of the header
\* cell of the same column when that cell exists, is not blank and does not
\* name the team itself, and the placeholder opponent otherwise.  For header
\* ['', '', 'Lion', 'Zenit'] and row ['1', 'Vintage', '22.11 d', '29.11 g']
\* with today before 22.11 the result is two records with opponents 'Lion'
\* and 'Zenit'.
C19_OpponentFromHeader ==
  (ppc # "start" /\ page.fetch = "ok") =>
    \A i \in CrossTables :
      LET table == page.items[i]
          columns == FutureColumns(table)
      IN /\ columns # <<>> =>
              /\ Len(extracted[i]) = Len(columns)
              /\ \A j \in 1..Len(columns) :
                   extracted[i][j].opponent =
                     IF NamesOpponent(table.rows[1], columns[j])
                     THEN Strip(table.rows[1][columns[j]])
                     ELSE DefaultOpponent
         /\ table = TableCross => OpponentsOf(extracted[i]) = <<Lion, Zenit>>

\* the example table parsed, and a table whose header names the team in the
\* third column and has no fourth parsed to two placeholder opponents
C19_Witness ==
  /\ ppc = "done"
  /\ page.fetch = "ok"
  /\ Len(page.items) = 2
  /\ page.items[1] = TableCross
  /\ OpponentsOf(extracted[1]) = <<Lion, Zenit>>
  /\ page.items[2] = TableOwnColumn
  /\ OpponentsOf(extracted[2]) = <<DefaultOpponent, DefaultOpponent>>

\* C19 as stated: the opponent of every record of the matrix strategy is the
\* text of the header cell of its column
C19_AsStated ==
  (ppc # "start" /\ page.fetch = "ok") =>
    \A i \in CrossTables :
      LET table == page.items[i]
          columns == FutureColumns(table)
      IN columns # <<>> =>
           /\ Len(extracted[i]) = Len(columns)
           /\ \A j \in 1..Len(columns) :
                /\ columns[j] <= Len(table.rows[1])
                /\ extracted[i][j].opponent = Strip(table.rows[1][columns[j]])

\* --------------------------------------------- claims on the poll creation

\* the team is found in a segment of a fragment
TeamInSegment(segment, team_name) ==
  IsSubstr(_normalize_name_for_search(team_name), _normalize_name_for_search(segment))

\* the separators, by their place in the list, that cut the fragment into
\* segments of which the first or the second names the team
DecisiveSeparators(text, team_name) ==
  {k \in 1..Len(game_separators) :
     LET parts == SplitParts(text, game_separators[k])
     IN Len(parts) >= 2 /\ (TeamInSegment(parts[1], team_name)
                              \/ TeamInSegment(parts[2], team_name))}

\* "home", "away" or "none": the segment the team is found in under the first
\* decisive separator
RoleByOrder(text, team_name) ==
  LET decisive == DecisiveSeparators(text, team_name)
      first == SplitParts(text, game_separators[Min(decisive)])
  IN IF decisive = {} THEN "none"
     ELSE IF TeamInSegment(first[1], team_name) THEN "home" ELSE "away"

\* C11: the role of a record parsed from a schedule row follows the textual
\* order.  Under the first separator of the list that cuts the fragment into
\* segments of which the first or second names the team, the record is home
\* (team1 = team, team2 = opponent) when the first segment names the team and
\* away (team1 = opponent, team2 = team) otherwise; when no separator is
\* decisive the record carries no team1/team2 and the poll is created with
\* the team first (team1 = team, team1_id = 1).  'Vintage - Zenit 15.07.2025
\* 19:30' gives home with opponent 'Zenit' for team 'Vintage' and away with
\* opponent 'Vintage' for team 'Zenit'.
C11_RoleFromTextualOrder ==
  (poll_pc # "idle" /\ row_call # NoCall) =>
    LET team_name == row_call.team_name
        role == RoleByOrder(row_call.text, team_name)
        polled == poll_pc = "done" /\ formatted_game # None
    IN /\ role = "home" =>
            /\ game_info.team1 = team_name
            /\ game_info.team2 = game_info.opponent
            /\ polled => formatted_game.team1 = team_name
       /\ role = "away" =>
            /\ game_info.team1 = game_info.opponent
            /\ game_info.team2 = team_name
            /\ polled => formatted_game.team2 = team_name
       /\ role = "none" =>
            /\ game_info.team1 = Absent
            /\ game_info.team2 = Absent
            /\ polled => /\ formatted_game.team1 = team_name
                         /\ formatted_game.team2 = formatted_game.opponent_team_name
                         /\ formatted_game.team1_id = 1
                         /\ formatted_game.our_team_id = 1
       /\ (row_call.text = TxtHomeAway /\ team_name = TeamName) =>
            role = "home" /\ game_info.opponent = Zenit
       /\ (row_call.text = TxtHomeAway /\ team_name = Zenit) =>
            role = "away" /\ game_info.opponent = TeamName

\* the poll of the example fragment parsed for 'Zenit' is created with
\* 'Vintage' first
C11_Witness ==
  /\ poll_pc = "done"
  /\ row_call = [text |-> TxtHomeAway, team_name |-> Zenit]
  /\ formatted_game # None
  /\ formatted_game.team1 = TeamName
  /\ formatted_game.team2 = Zenit

\* C13: the opponent handed to create_game_poll never holds the record's
\* venue: whenever the stripped venue of the game is non-empty, the
\* opponent_team_name of the formatted game has no occurrence of it.
C13_OpponentWithoutVenue ==
  (poll_pc = "done" /\ formatted_game # None
     /\ Truthy(Strip(Get(game_info.venue, <<>>)))) =>
    ~IsSubstr(Strip(Get(game_info.venue, <<>>)), formatted_game.opponent_team_name)

\* ------------------------------------------------- claims on the run

\* C14: no failure while processing one config is fatal to the run.  Every
\* call of process_fallback_config, whether it returned or raised, is followed
\* by the call for the next config of the list: while the loop runs the calls
\* made are those for the configs before the current one, in order, and when
\* run_monitoring is over it has returned normally with one call made for
\* every config of the list.
C14_RunSurvivesConfigFailure ==
  /\ run_pc \in {"start", "loop", "returned"}
  /\ \A k \in 1..Len(calls) : k <= Len(configs) /\ calls[k].config = configs[k]
  /\ run_pc = "loop" => Len(calls) = config_idx - 1
  /\ run_pc = "returned" => Len(calls) = Len(configs)

\* the first config raised, the later ones were processed and the run returned
C14_Witness ==
  /\ run_pc = "returned"
  /\ Len(calls) >= 3
  /\ calls[1].raised
  /\ ~calls[2].raised
  /\ calls[3].raised

\* the k-th cell of a sheet row, '' when the row is shorter
CellOf(row, k) == IF k <= Len(row) THEN row[k] ELSE <<>>

\* the URL cell of the row, trimmed, starts with http:// or https://
CarriesUrl(row) ==
  \E prefix \in UrlPrefixes : StartsWith(Strip(CellOf(row, 7)), prefix)

IsEndMarkerRow(row) == Upper(Strip(CellOf(row, 1))) \in EndMarkers

IsSectionHeaderRow(row) == Upper(Strip(CellOf(row, 1))) \in SectionHeaders

\* the rows of the sheet get_fallback_configs was run on
SheetRows == config_worksheet.rows

\* the rows below the header row that lie above every end marker and are
\* neither an end marker nor a section header
OpenRows ==
  {k \in 2..Len(SheetRows) :
     /\ \A j \in 2..k : ~IsEndMarkerRow(SheetRows[j])
     /\ ~IsSectionHeaderRow(SheetRows[k])}

C16_BrowserClosedOnEveryPath ==
  (fetch_pc \in {"fetched", "returned"} /\ browser # "none") => browser = "closed"

\* the host of a URL, in lower case: what lies between '://' and the next '/'
HostOf(url) ==
  LET scheme_end == Min({k \in 1..(Len(url) - 2) : SubSeq(url, k, k + 2) = <<":", "/", "/">>}) + 2
      rest == SubSeq(url, scheme_end + 1, Len(url))
      slashes == {k \in 1..Len(rest) : rest[k] = "/"}
      host == IF slashes = {} THEN rest ELSE SubSeq(rest, 1, Min(slashes) - 1)
  IN [k \in 1..Len(host) |-> ToLower(host[k])]

\* the host of the URL matches one of the JavaScript-site patterns
IsJsHost(url) == \E site \in js_sites : IsSubstr(site, HostOf(url))

\* C17 (amended): the fetch path is chosen by the URL text and by whether
\* Playwright is importable.  When it is importable, every URL that holds
\* 'globalleague.ru' or 'neva-basket.ru' anywhere, in that spelling, is
\* fetched by a rendering pass and every other URL by a plain GET; when it is
\* not importable every URL is fetched by a plain GET.  A page is parsed from
\* the response of the path chosen and never from the other one.
C17_FetchPathByUrlText ==
  LET rendering == PLAYWRIGHT_AVAILABLE /\ \E site \in js_sites : IsSubstr(site, fetch_url)
  IN /\ fetch_pc \in {"playwright", "launch", "new_context", "new_page", "goto",
                     "wait", "scroll", "content", "finally", "exit"} => rendering
     /\ fetch_pc = "get" => ~rendering
     /\ driver # "none" => rendering
     /\ parsed_from = "render" => rendering /\ driver = "stopped"
     /\ parsed_from = "get" => ~rendering /\ driver = "none"

\* a page of another site parsed from a rendering pass because its query
\* names globalleague.ru
C17_Witness ==
  /\ fetch_pc = "returned"
  /\ fetch_url = UrlMention
  /\ parsed_from = "render"
  /\ browser = "closed"

\* C17 as stated: the path is chosen by host: a page is parsed from a
\* rendering pass when the host of its URL matches a JavaScript-site pattern
\* and from a plain GET otherwise
C17_AsStated ==
  /\ parsed_from = "render" => IsJsHost(fetch_url)
  /\ parsed_from = "get" => ~IsJsHost(fetch_url)

\* ------------------------------------- claims on the calendar strategy

\* the table, date-anchored and link strategies gave no game for the main page
OthersFoundNothing ==
  \A k \in 1..Len(page.items) : page.items[k].kind # "calendar" => extracted[k] = <<>>

\* the calendar match names the team in one of its two segments and its date
\* is a calendar date after today
CalendarMatchQualifies(c) ==
  /\ TeamInSegment(c.team1_text, TeamName) \/ TeamInSegment(c.team2_text, TeamName)
  /\ Strptime(c.date_str) # NoDate
  /\ DateLT(today, Strptime(c.date_str))

\* the calendar scan is open to the page: a globalleague.ru URL and a
\* document without class-marked elements
CalendarScanOpen ==
  page.globalleague /\ \A k \in 1..Len(page.items) : page.items[k].kind # "marked"

DatedText(a) ==
  IF DateSearch(a.link.text) # NoMatch THEN a.link.text
  ELSE IF DateSearch(a.parent.text) # NoMatch THEN a.parent.text
  ELSE <<>>

\* C21: for a game link that names the team, a date present in the link
\* text or the parent text means the record is parsed from that text and
\* the linked page is not fetched; the linked page is fetched only when the
\* text holds no date; a record from either path is dated strictly after
\* today.
C21_DatedLinkNotFetched ==
  ppc # "start" =>
    \A i \in 1..Len(page.items) :
      page.items[i].kind = "anchor" =>
        LET a == page.items[i] IN
        /\ DatedText(a) # <<>> =>
             /\ ~linked_fetched[i]
             /\ extracted[i] # <<>> =>
                  Strptime(extracted[i][1].date) = Strptime(FirstDate(DatedText(a)))
        /\ linked_fetched[i] => DatedText(a) = <<>>
        /\ extracted[i] # <<>> => AfterToday(extracted[i][1].date)

\* --------------------------------------- claims on the teams searched

\* the texts between the commas of a name field, by the positions of the
\* commas
CommaParts(name) ==
  LET cuts == {0, Len(name) + 1} \cup {k \in 1..Len(name) : name[k] = ","}
  IN {SubSeq(name, a + 1, b - 1) :
        <<a, b>> \in {ab \in cuts \X cuts :
                       ab[1] < ab[2] /\ \A c \in cuts : ~(ab[1] < c /\ c < ab[2])}}

\* the non-empty names the fallback name field of the config yields
ExplicitNames == {Strip(part) : part \in CommaParts(search_config.config.name)} \ {<<>>}

\* a name the config sheet offers for one of the team ids of the config
SheetNames ==
  {Strip(search_config.resolve[id]) :
     id \in {search_config.config.team_ids[k] :
               k \in 1..Len(search_config.config.team_ids)}}
  \cup {Strip(search_config.sheet.rows[k].alt_name) :
          k \in 1..Len(search_config.sheet.rows)}

\* the fallback name field yields no name, no team id of the config
\* resolves to a name and no row read from the sheet offers one for them
NoNameAvailable ==
  LET config == search_config.config
      sheet == search_config.sheet
      ids == {config.team_ids[k] : k \in 1..Len(config.team_ids)}
  IN /\ ExplicitNames = {}
     /\ \A id \in ids : ~Truthy(search_config.resolve[id])
     /\ \/ ~sheet.available
        \/ sheet.raises
        \/ \A k \in 1..Len(sheet.rows) :
             \/ sheet.rows[k].cells < 3
             \/ sheet.rows[k].parsed_ids \cap ids = {}
             \/ Strip(sheet.rows[k].alt_name) = <<>>

SubmissionsOfSite(i) == {k \in 1..Len(submissions) : submissions[k].site = i}

SubmissionsOfApi(j) == {k \in 1..Len(submissions) : submissions[k].api = j}

\* C23: reconciliation loses and duplicates nothing.  When
\* process_fallback_config returns, every game of the site list it worked on
\* was submitted exactly once, merged or site_only; every API game
\* contributed to exactly one submission, the merged record of its match or
\* an api_only one; and the number of submissions is |S| + |A| minus the
\* number of matched pairs, also when one of the lists is empty.  At no
\* point of the run has a game been submitted twice.
C23_NothingLostOrDuplicated ==
  /\ \A i \in 1..Len(site_games) : Cardinality(SubmissionsOfSite(i)) <= 1
  /\ \A j \in 1..Len(api_games) : Cardinality(SubmissionsOfApi(j)) <= 1
  /\ \A k \in 1..Len(submissions) :
       /\ submissions[k].site # 0 \/ submissions[k].api # 0
       /\ submissions[k].source = "site_priority" <=>
            (submissions[k].site # 0 /\ submissions[k].api # 0)
       /\ submissions[k].source = "site_only" <=>
            (submissions[k].site # 0 /\ submissions[k].api = 0)
       /\ submissions[k].source = "api_only" <=>
            (submissions[k].site = 0 /\ submissions[k].api # 0)
  /\ pc = "done" =>
       /\ \A i \in 1..Len(site_games) : Cardinality(SubmissionsOfSite(i)) = 1
       /\ \A j \in 1..Len(api_games) : Cardinality(SubmissionsOfApi(j)) = 1
       /\ Len(submissions) = Len(site_games) + Len(api_games)
                               - Cardinality(SubmittedAs("site_priority"))

\* two site games and two API games with one matched pair: three
\* submissions, one of each kind
C23_Witness ==
  /\ pc = "done"
  /\ Len(site_games) = 2 /\ Len(api_games) = 2
  /\ Len(submissions) = 3
  /\ \A source \in {"site_priority", "site_only", "api_only"} :
       Cardinality(SubmittedAs(source)) = 1

\* --------------------------------------- claims on duplicate protection

\* the calls of _create_poll_if_needed that created a poll
PollsCreated == {i \in 1..Len(poll_log) : poll_log[i].created}

\* a record of duplicate protection kept for the game of a call
RecordedFor(game) ==
  \E r \in 1..Len(service_rows) :
    /\ service_rows[r].game_date = game.date
    /\ service_rows[r].game_time = Get(game.time, DefaultTime)
    /\ service_rows[r].game_id = game.game_id

\* C24: when _create_poll_if_needed has created a poll for a game, a record
\* of that game has been added to duplicate protection before the call
\* returned, also when the game has an empty team name or an opponent that
\* is empty after cleaning.
C24_CreatedPollIsRecorded ==
  \A i \in PollsCreated : RecordedFor(poll_log[i].game)

\* two calls are for one game: same date, time, team and opponent
SameGame(a, b) ==
  /\ a.date = b.date
  /\ a.time = b.time
  /\ a.team_name = b.team_name
  /\ a.opponent = b.opponent

\* C25: at most one poll is created per game.  Of the calls of
\* _create_poll_if_needed made for the same date, time, team and opponent,
\* whether or not they carry a game id, no two created a poll.
C25_OnePollPerGame ==
  \A i, j \in PollsCreated : SameGame(poll_log[i].game, poll_log[j].game) => i = j

\* C26: create_game_poll is called only for a game whose date is a valid
\* DD.MM.YYYY date strictly after today: for a game dated today or earlier,
\* without date or with a date that does not parse it is never called.
C26_PollOnlyForFutureDate ==
  (poll_log # <<>> /\ formatted_game # None) =>
    /\ Truthy(game_info.date)
    /\ Strptime(game_info.date) # NoDate
    /\ ~DateLE(Strptime(game_info.date), today)

\* ----------------------------------------------- claims on the venue

\* no venue could be extracted for a site game: the strategy left the venue
\* empty or stored the 'not specified' sentinel
NoVenueExtracted(site_game) ==
  ~Truthy(site_game.venue) \/ site_game.venue = NotSpecified

\* C27: when a site game for which no venue could be extracted is merged
\* with an API game that has a venue, the merged record carries the venue of
\* the API game, whichever strategy extracted the site game.
C27_ApiVenueFillsIn ==
  \A k \in SubmittedAs("site_priority") :
    LET s == site_games[submissions[k].site]
        a == api_games[submissions[k].api]
    IN (NoVenueExtracted(s) /\ Truthy(a.venue)) => submissions[k].game.venue = a.venue

\* ------------------------------------------- claims on the cross table

\* the hour and minute a time text H:MM or HH:MM names lie in the window
\* 8:00 to 23:59
InGameWindow(time) ==
  LET parts == SplitChar(time, ":") IN
  /\ Len(parts) = 2
  /\ parts[1] # <<>> /\ AllDigits(parts[1])
  /\ Len(parts[2]) = 2 /\ AllDigits(parts[2])
  /\ ToInt(parts[1]) >= 8 /\ ToInt(parts[1]) <= 23
  /\ ToInt(parts[2]) >= 0 /\ ToInt(parts[2]) <= 59

\* C28: every game record page extraction returns has a time that is the
\* default 20:00 or has its hour in 8..23 and its minute in 0..59, whichever
\* strategy produced it, the cross-table strategy, which reads the time from
\* the date cell, included.
C28_TimeInGameWindow ==
  \A k \in 1..Len(games) : games[k].time = DefaultTime \/ InGameWindow(games[k].time)

\* the cells of the team's row of the cross table of the page
TeamRowCells ==
  IF page = NoPage THEN <<>>
  ELSE SubSeq(page.items[1].rows[2], 3, Len(page.items[1].rows[2]))

\* the day and the month a date cell names, and whether it names a year
CellDay(text) == ToInt(SplitChar(text, ".")[1])

CellMonth(text) == ToInt(SubSeq(SplitChar(text, ".")[2], 1, 2))

Yearless(text) == Len(SplitChar(text, ".")) = 2

IsCalendarDate(y, m, d) == m \in 1..12 /\ d >= 1 /\ d <= DaysInMonth(y, m)

\* the date the claim resolves a cell to on the day now, NoDate when the
\* day and month are no date of the year resolved to
ResolvedDate(text, now) ==
  LET d == CellDay(text)
      m == CellMonth(text)
      InYear(y) == IF IsCalendarDate(y, m, d) THEN <<y, m, d>> ELSE NoDate
      ThisYear(this) ==
        IF this = NoDate THEN NoDate
        ELSE IF ToOrdinal(now) - ToOrdinal(this) > 30 THEN InYear(now[1] + 1)
        ELSE this
  IN IF Yearless(text) THEN ThisYear(InYear(now[1])) ELSE Strptime(text)

\* the dates of the records the claim expects of the cells from i on
RECURSIVE ExpectedDates(_, _, _)
ExpectedDates(cells, i, now) ==
  LET Emitted(resolved) ==
        IF resolved # NoDate /\ ToOrdinal(resolved) > ToOrdinal(now)
        THEN <<Strftime(resolved)>>
        ELSE <<>>
  IN IF i > Len(cells) THEN <<>>
     ELSE Emitted(ResolvedDate(cells[i], now)) \o ExpectedDates(cells, i + 1, now)

\* C30: in the cross-table strategy a date cell without a year (DD.MM) is
\* resolved to the current year unless that date lies more than 30 days
\* before today, and then to the next year; the cell yields a record only if
\* the resolved date is strictly after today, so a yearless date 0 to 30
\* days in the past yields none; a day and month that are not a date of the
\* resolved year yield no record and the parse still completes.
C30_YearlessDateResolution ==
  ppc # "start" =>
    /\ [k \in 1..Len(games) |-> games[k].date] = ExpectedDates(TeamRowCells, 1, today)
    /\ \A k \in 1..Len(games) : ~DateLE(Strptime(games[k].date), today)

\* parsed on 10.10.2025: '09.09', 31 days back, gives the game of
\* 09.09.2026, and '10.09', 30 days back, gives none
C30_Witness ==
  /\ ppc = "done"
  /\ today = <<2025, 10, 10>>
  /\ TeamRowCells = <<CellSep10, CellSep9>>
  /\ Len(unique_games) = 1
  /\ unique_games[1].date = <<"0", "9", ".", "0", "9", ".", "2", "0", "2", "6">>

\* ------------------------------------------- claims on the end marker

\* the first row below the header row whose first cell is an end marker,
\* one past the last row when there is none
FirstEndMarker ==
  LET marked == {k \in 2..Len(SheetRows) : IsEndMarkerRow(SheetRows[k])}
  IN IF marked = {} THEN Len(SheetRows) + 1 ELSE Min(marked)

\* the config the claim expects of a row
ConfigOfRow(row) ==
  [comp_ids |-> CellOf(row, 2), team_ids |-> CellOf(row, 3),
   url |-> Strip(CellOf(row, 7)), name |-> Strip(CellOf(row, 8))]

\* the configs of the URL-bearing rows from row k up to the first end marker
\* that are no section header, in row order
RECURSIVE ConfigsBeforeEnd(_)
ConfigsBeforeEnd(k) ==
  IF k > Len(SheetRows) THEN <<>>
  ELSE IF IsEndMarkerRow(SheetRows[k]) THEN <<>>
  ELSE (IF CarriesUrl(SheetRows[k]) /\ ~IsSectionHeaderRow(SheetRows[k])
        THEN <<ConfigOfRow(SheetRows[k])>> ELSE <<>>)
       \o ConfigsBeforeEnd(k + 1)

====
